---- MODULE Spec2Model ----
(***************************************************************************)
(* Resilient execution layer of the Solana toolkit: ConnectionManager      *)
(* (health probe loop, executeWithRetry, switchNetwork) from src/core.js,  *)
(* and the operations the managers hand to executeWithRetry                *)
(* (executeTransaction, getAccountInfo, getProgramAccountInfo,             *)
(* getTransactionDetails).                                                 *)
(*                                                                         *)
(* One step of the model is one run-to-completion turn of the JavaScript   *)
(* event loop: everything a callback does between two awaits is atomic.    *)
(* The remote RPC provider is an environment that resolves or rejects an   *)
(* awaited call.                                                           *)
(***************************************************************************)
EXTENDS Integers, Sequences, FiniteSets, TLC

VARIABLES
    endpoint,         \* ConnectionManager.endpoint
    commitment,       \* ConnectionManager.commitment
    connection,       \* ConnectionManager.connection (the Connection object)
    isHealthy,        \* ConnectionManager.isHealthy
    lastHealthCheck,  \* ConnectionManager.lastHealthCheck
    timers,           \* intervals registered by setInterval, none is ever cleared
    probes,           \* interval callbacks suspended at `await getSlot()`
    now,              \* Date.now(), ms since construction
    switchError,      \* what the last switchNetwork threw ("" when it returned)
    calls,            \* executeWithRetry activations, by call id
    txn,              \* the Transaction object and the locals of executeTransaction
    ledger,           \* the remote: blockhash source, submissions, confirmations
    audit,            \* an observer's notes on the probes (history, not program state)
    toolkit           \* SolanaToolkit: its Configuration, its Logger, the last API call

vars == <<endpoint, commitment, connection, isHealthy, lastHealthCheck, timers,
          probes, now, switchError, calls, txn, ledger, audit, toolkit>>

mgrVars == <<endpoint, commitment, connection, isHealthy, lastHealthCheck,
             timers, probes, now, switchError>>

(***************************************************************************)
(* Bounds of the model                                                     *)
(***************************************************************************)
MaxRetriesArg == 4      \* largest maxRetries argument a caller passes
MaxConnections == 2     \* Connection objects created (construction + switches)
MaxProbes == 2          \* probes in flight at once
MaxClockSteps == 2      \* clock advances

CallIds == {1}

(***************************************************************************)
(* Program constants                                                       *)
(***************************************************************************)
retryAttempts == 3
retryDelay == 1000
HealthThreshold == 5000
DefaultComputeUnits == 200000

ClockStep == HealthThreshold \div 2

Endpoints == {"devnet", "mainnet", "not-a-url"}
ValidEndpoints == {"devnet", "mainnet"}
Commitments == {"confirmed", "finalized"}

RECURSIVE Pow2(_)
Pow2(k) == IF k <= 0 THEN 1 ELSE 2 * Pow2(k - 1)

Last(s) == s[Len(s)]

(***************************************************************************)
(* SolanaToolkitError and the other thrown values.  The context map has a  *)
(* fixed shape here; a key the source does not set is -1 or "".  A message *)
(* is the sequence of the pieces the source concatenates.                  *)
(***************************************************************************)
NoContext ==
    [attempt |-> -1, maxRetries |-> -1, lastError |-> <<>>, error |-> <<>>,
     subject |-> ""]

NoError == [type |-> "none", code |-> "", message |-> <<>>, context |-> NoContext]

SolanaToolkitError(message, code, context) ==
    [type |-> "SolanaToolkitError", code |-> code, message |-> message,
     context |-> context]

\* new Error(message), or an error object thrown by the RPC client
PlainError(message) ==
    [type |-> "Error", code |-> "", message |-> message, context |-> NoContext]

\* reading .message of undefined
TypeError ==
    [type |-> "TypeError", code |-> "",
     message |-> <<"Cannot read properties of undefined">>,
     context |-> NoContext]

UnhealthyError(attempt, maxRetries) ==
    SolanaToolkitError(<<"Connection is unhealthy">>, "UNHEALTHY_CONNECTION",
        [NoContext EXCEPT !.attempt = attempt, !.maxRetries = maxRetries])

OperationFailedError(maxRetries, lastError) ==
    SolanaToolkitError(
        <<"Operation failed after ", ToString(maxRetries), " attempts: ">>
            \o lastError.message,
        "OPERATION_FAILED",
        [NoContext EXCEPT !.maxRetries = maxRetries,
                          !.lastError = lastError.message])

(***************************************************************************)
(* ConnectionManager: construction, probe loop, switchNetwork              *)
(***************************************************************************)

\* new Connection(endpoint, {commitment, ...}): the object remembers what it
\* was created with; the constructor throws on a URL that is not http(s).
NewConnection(id, ep, cm) == [id |-> id, endpoint |-> ep, commitment |-> cm]

ConnectionThrows(ep) == ep \notin ValidEndpoints

\* startHealthCheck: setInterval(callback, healthCheckInterval).  The handle
\* is not kept.  `conn` is the connection that was active at registration.
NewTimer(conn) == [conn |-> conn.id]

\* initializeConnection with this.endpoint = ep, this.commitment = cm: the
\* new values of <<connection, timers, thrown code>>
InitializeConnection(ep, cm) ==
    IF ConnectionThrows(ep)
    THEN [connection |-> connection, timers |-> timers,
          thrown |-> "CONNECTION_INIT_ERROR"]
    ELSE LET c == NewConnection(connection.id + 1, ep, cm)
         IN  [connection |-> c, timers |-> timers \cup {NewTimer(c)},
              thrown |-> ""]

\* switchNetwork(newEndpoint, newCommitment = this.commitment);
\* cmArg is <<>> when the argument is omitted
SwitchNetworkBody(newEndpoint, cmArg) ==
    /\ connection.id < MaxConnections
    /\ LET newCommitment == IF cmArg = <<>> THEN commitment ELSE cmArg[1]
           r == InitializeConnection(newEndpoint, newCommitment)
       IN  /\ endpoint' = newEndpoint
           /\ commitment' = newCommitment
           /\ connection' = r.connection
           /\ timers' = r.timers
           /\ switchError' = r.thrown
    /\ UNCHANGED <<isHealthy, lastHealthCheck, probes, now, calls, txn, ledger,
                   audit>>

\* connectionManager.switchNetwork(...) called directly
SwitchNetwork(newEndpoint, cmArg) ==
    /\ SwitchNetworkBody(newEndpoint, cmArg)
    /\ UNCHANGED toolkit

\* an interval fires: the callback reads Date.now(), calls getSlot() on
\* this.connection as it is now, and suspends.  The period
\* (healthCheckInterval) is not modelled: a registered interval may fire at
\* any time, but not twice at the same clock value.
TimerTick(t) ==
    /\ t \in timers
    /\ Cardinality(probes) < MaxProbes
    /\ LET p == [timer |-> t.conn, conn |-> connection.id, start |-> now]
       IN  /\ p \notin probes
           /\ probes' = probes \cup {p}
    /\ UNCHANGED <<endpoint, commitment, connection, isHealthy, lastHealthCheck,
                   timers, now, switchError, calls, txn, ledger, toolkit>>

\* mutant of ProbeHealthy: a response in exactly the threshold time counts as
\* healthy
ProbeHealthy_Inclusive(responseTime) == responseTime <= HealthThreshold

\* the probe's latency test
ProbeHealthy(responseTime) == responseTime < HealthThreshold

\* getSlot() resolved: the rest of the try block
ProbeResolve(p) ==
    /\ p \in probes
    /\ probes' = probes \ {p}
    /\ isHealthy' = ProbeHealthy(now - p.start)
    /\ lastHealthCheck' = now
    /\ UNCHANGED <<endpoint, commitment, connection, timers, now, switchError,
                   calls, txn, ledger, toolkit>>

\* mutant of ProbeReject: the catch block stamps lastHealthCheck as well
ProbeReject_StampsTime(p) ==
    /\ p \in probes
    /\ probes' = probes \ {p}
    /\ isHealthy' = FALSE
    /\ lastHealthCheck' = now
    /\ UNCHANGED <<endpoint, commitment, connection, timers,
                   now, switchError, calls, txn, ledger, toolkit>>

\* getSlot() rejected: the catch block
ProbeReject(p) ==
    /\ p \in probes
    /\ probes' = probes \ {p}
    /\ isHealthy' = FALSE
    /\ UNCHANGED <<endpoint, commitment, connection, lastHealthCheck, timers,
                   now, switchError, calls, txn, ledger, toolkit>>

\* mutant of ClockAdvance: a health state not refreshed for the threshold time
\* counts as unhealthy
ClockAdvance_StalenessFlips ==
    /\ now < MaxClockSteps * ClockStep
    /\ now' = now + ClockStep
    /\ isHealthy' = (isHealthy /\ now' - lastHealthCheck < HealthThreshold)
    /\ UNCHANGED <<endpoint, commitment, connection, lastHealthCheck,
                   timers, probes, switchError, calls, txn, ledger, audit,
                   toolkit>>

\* time passes
ClockAdvance ==
    /\ now < MaxClockSteps * ClockStep
    /\ now' = now + ClockStep
    /\ UNCHANGED <<endpoint, commitment, connection, isHealthy, lastHealthCheck,
                   timers, probes, switchError, calls, txn, ledger, audit,
                   toolkit>>

(***************************************************************************)
(* The probe loop under observation: the same steps, with notes taken of   *)
(* the probe started last (latest, and how it ended) and of the completion *)
(* seen last (how, its elapsed time, the flag before it).                  *)
(***************************************************************************)
NoProbe == [timer |-> 0, conn |-> 0, start |-> -1]

NoAudit == [latest |-> NoProbe, latestDone |-> "none", latestElapsed |-> 0,
            how |-> "none", elapsed |-> 0, before |-> TRUE]

Completed(p, how) ==
    LET a == [audit EXCEPT !.how = how, !.elapsed = now - p.start,
                           !.before = isHealthy]
    IN  IF p = audit.latest
        THEN [a EXCEPT !.latestDone = how, !.latestElapsed = now - p.start]
        ELSE a

ObservedTick(t) ==
    /\ TimerTick(t)
    /\ audit' = [audit EXCEPT
            !.latest = [timer |-> t.conn, conn |-> connection.id, start |-> now],
            !.latestDone = "pending", !.latestElapsed = 0]

ObservedResolve(p) ==
    /\ ProbeResolve(p)
    /\ audit' = Completed(p, "resolved")

ObservedReject(p) ==
    /\ ProbeReject(p)
    /\ audit' = Completed(p, "rejected")

\* getHealthStatus()
getHealthStatus ==
    [isHealthy |-> isHealthy, lastHealthCheck |-> lastHealthCheck,
     endpoint |-> endpoint, commitment |-> commitment]

(***************************************************************************)
(* executeWithRetry                                                        *)
(***************************************************************************)
IdleCall ==
    [kind |-> "", subject |-> "", pc |-> "idle", maxRetries |-> 0,
     attempt |-> 0, lastError |-> NoError, invoked |-> 0, conns |-> <<>>,
     sleeps |-> <<>>, errors |-> <<>>, outcomes |-> <<>>, result |-> "",
     error |-> NoError]

\* mutant of Delay: the exponent is the attempt, not attempt - 1
Delay_ExponentIsAttempt(attempt) == retryDelay * Pow2(attempt)

\* const delay = this.retryDelay * Math.pow(2, attempt - 1)
Delay(attempt) == retryDelay * Pow2(attempt - 1)

\* the catch block of the managers around executeWithRetry(...)
ManagerCatch(kind, subject, error) ==
    CASE kind = "executeTransaction" ->
            SolanaToolkitError(
                <<"Failed to execute transaction: ">> \o error.message,
                "TRANSACTION_EXECUTION_ERROR",
                [NoContext EXCEPT !.error = error.message])
      [] kind \in {"getAccountInfo", "getProgramAccountInfo",
                   "getTransactionDetails"} ->
            IF error.type = "SolanaToolkitError" THEN error
            ELSE SolanaToolkitError(
                    <<"Failed to get ", kind, ": ">> \o error.message,
                    CASE kind = "getAccountInfo" -> "ACCOUNT_INFO_ERROR"
                      [] kind = "getProgramAccountInfo" ->
                            "PROGRAM_ACCOUNT_INFO_ERROR"
                      [] OTHER -> "TRANSACTION_DETAILS_ERROR",
                    [NoContext EXCEPT !.subject = subject,
                                      !.error = error.message])
      [] kind = "requestAirdrop" ->
            SolanaToolkitError(
                <<"Failed to request airdrop: ">> \o error.message,
                "AIRDROP_ERROR",
                [NoContext EXCEPT !.subject = subject,
                                  !.error = error.message])
      [] kind = "sendTransaction" ->
            SolanaToolkitError(
                <<"Failed to send transaction: ">> \o error.message,
                "TRANSACTION_SEND_ERROR",
                [NoContext EXCEPT !.subject = subject,
                                  !.error = error.message])
      [] kind = "createAssociatedTokenAccount" ->
            SolanaToolkitError(
                <<"Failed to create associated token account: ">>
                    \o error.message,
                "ASSOCIATED_TOKEN_ACCOUNT_CREATION_ERROR",
                [NoContext EXCEPT !.subject = subject,
                                  !.error = error.message])
      [] kind = "getOrCreateAssociatedTokenAccount" ->
            SolanaToolkitError(
                <<"Failed to get or create associated token account: ">>
                    \o error.message,
                "ASSOCIATED_TOKEN_ACCOUNT_ERROR",
                [NoContext EXCEPT !.subject = subject,
                                  !.error = error.message])
      [] OTHER -> error

\* the throw after the loop; lastError is undefined when the loop body never ran
ThrowExhausted(c) ==
    LET e == IF c.lastError = NoError THEN TypeError
             ELSE OperationFailedError(c.maxRetries, c.lastError)
    IN  [c EXCEPT !.pc = "raised",
                  !.error = ManagerCatch(c.kind, c.subject, e)]

\* mutant of Catch: gives up one attempt early
Catch_OneAttemptShort(c, e) ==
    LET d == [c EXCEPT !.lastError = e, !.errors = Append(@, e)]
    IN  IF d.attempt >= d.maxRetries - 1
        THEN ThrowExhausted(d)
        ELSE [d EXCEPT !.pc = "sleeping", !.sleeps = Append(@, Delay(d.attempt))]

\* mutant of Catch: lastError keeps the first failure
Catch_KeepsFirstError(c, e) ==
    LET d == [c EXCEPT !.lastError = IF @ = NoError THEN e ELSE @,
                       !.errors = Append(@, e)]
    IN  IF d.attempt = d.maxRetries
        THEN ThrowExhausted(d)
        ELSE [d EXCEPT !.pc = "sleeping", !.sleeps = Append(@, Delay(d.attempt))]

\* mutant of Catch: the promise of the backoff sleep is never resolved
\* (setTimeout is armed without the resolve callback)
Catch_SleepNeverResolves(c, e) ==
    LET d == [c EXCEPT !.lastError = e, !.errors = Append(@, e)]
    IN  IF d.attempt = d.maxRetries
        THEN ThrowExhausted(d)
        ELSE [d EXCEPT !.pc = "parked", !.sleeps = Append(@, Delay(d.attempt))]

\* the catch block of the loop body, for attempt c.attempt
Catch(c, e) ==
    LET d == [c EXCEPT !.lastError = e, !.errors = Append(@, e)]
    IN  IF d.attempt = d.maxRetries
        THEN ThrowExhausted(d)
        ELSE [d EXCEPT !.pc = "sleeping", !.sleeps = Append(@, Delay(d.attempt))]

\* mutant of Attempt: the health gate is missing
Attempt_NoHealthGate(c, healthy, conn) ==
    [c EXCEPT !.pc = "invoking", !.invoked = @ + 1,
              !.conns = Append(@, conn.id)]

\* mutant of Attempt: the connection is taken when the call begins and kept
\* for its later attempts
Attempt_KeepsFirstConnection(c, healthy, conn) ==
    IF ~healthy
    THEN Catch(c, UnhealthyError(c.attempt, c.maxRetries))
    ELSE [c EXCEPT !.pc = "invoking", !.invoked = @ + 1,
                   !.conns = Append(@, IF c.conns = <<>> THEN conn.id
                                       ELSE c.conns[1])]

\* the try block up to the call of operation(this.connection)
Attempt(c, healthy, conn) ==
    IF ~healthy
    THEN Catch(c, UnhealthyError(c.attempt, c.maxRetries))
    ELSE [c EXCEPT !.pc = "invoking", !.invoked = @ + 1,
                   !.conns = Append(@, conn.id)]

\* mutant of LoopHead: the flag is read at the first attempt and the value is
\* kept for the later attempts of the call
LoopHead_FlagReadOnce(c) ==
    IF c.attempt <= c.maxRetries
    THEN Attempt(c,
                 IF c.attempt = 1 THEN isHealthy
                 ELSE c.errors[1].code # "UNHEALTHY_CONNECTION",
                 connection)
    ELSE ThrowExhausted(c)

\* the loop head: attempt <= maxRetries
LoopHead(c) ==
    IF c.attempt <= c.maxRetries
    THEN Attempt(c, isHealthy, connection)
    ELSE ThrowExhausted(c)

\* mutant of Return: `await operation(...)` without the return, so the loop
\* goes on to its next turn
Return_LoopGoesOn(c, v) == LoopHead([c EXCEPT !.attempt = @ + 1])

\* mutant of Return: the flag is read again when the operation has resolved,
\* and the result is dropped when the link has turned unhealthy meanwhile
Return_RechecksHealth(c, v) ==
    IF isHealthy THEN [c EXCEPT !.pc = "returned", !.result = v]
    ELSE Catch(c, UnhealthyError(c.attempt, c.maxRetries))

\* `return await operation(...)` when the operation resolved with value v
Return(c, v) == [c EXCEPT !.pc = "returned", !.result = v]

\* executeWithRetry(operation, maxRetries = this.retryAttempts) is called and
\* runs to its first await; arg is <<>> when maxRetries is omitted
Enter(kind, subject, arg) ==
    LoopHead([IdleCall EXCEPT !.kind = kind, !.subject = subject,
                              !.attempt = 1,
                              !.maxRetries = IF arg = <<>> THEN retryAttempts
                                             ELSE arg[1]])

\* the backoff timer fired: attempt++ and the next turn of the loop
AfterSleep(c) == LoopHead([c EXCEPT !.attempt = @ + 1])

(***************************************************************************)
(* A caller-supplied operation that resolves or rejects as the remote      *)
(* decides                                                                 *)
(***************************************************************************)
OperationErrors == {PlainError(<<"E1">>), PlainError(<<"E2">>)}

\* the operation's own record of how each of its invocations ended
Recorded(c, outcome) == [c EXCEPT !.outcomes = Append(@, outcome)]

MaxRetriesArgs == {<<>>} \cup {<<n>> : n \in 0..MaxRetriesArg}

Call(i, arg) ==
    /\ calls[i].pc = "idle"
    /\ calls' = [calls EXCEPT ![i] = Enter("operation", "", arg)]
    /\ UNCHANGED <<audit, toolkit, mgrVars, txn, ledger>>

OperationResolve(i) ==
    /\ calls[i].pc = "invoking"
    /\ calls[i].kind = "operation"
    /\ calls' = [calls EXCEPT ![i] = Recorded(Return(calls[i], "value"), "ok")]
    /\ UNCHANGED <<audit, toolkit, mgrVars, txn, ledger>>

OperationReject(i, e) ==
    /\ calls[i].pc = "invoking"
    /\ calls[i].kind = "operation"
    /\ calls' = [calls EXCEPT ![i] = Recorded(Catch(calls[i], e), e.message[1])]
    /\ UNCHANGED <<audit, toolkit, mgrVars, txn, ledger>>

\* the operation body up to its first await, when the attempt invoked it:
\* executeTransaction's body calls connection.getLatestBlockhash(), the body
\* of requestAirdrop calls connection.requestAirdrop()
OperationEntered(c, t) ==
    IF c.kind = "executeTransaction"
    THEN IF c.pc = "invoking"
         THEN [t EXCEPT !.pc = "getLatestBlockhash", !.steps = <<"Built">>]
         ELSE [t EXCEPT !.pc = "idle"]
    ELSE IF c.kind = "requestAirdrop"
    THEN [t EXCEPT !.pc = IF c.pc = "invoking" THEN "requestAirdrop"
                          ELSE "idle"]
    ELSE t

\* mutant of SleepDone: one backoff timer for the whole manager, whose firing
\* resumes every sleeping call
SleepDone_WakesEverySleeper(i) ==
    /\ calls[i].pc = "sleeping"
    /\ calls' = [j \in DOMAIN calls |->
                    IF calls[j].pc = "sleeping" THEN AfterSleep(calls[j])
                    ELSE calls[j]]
    /\ txn' = OperationEntered(calls'[i], txn)
    /\ UNCHANGED <<audit, toolkit, mgrVars, ledger>>

SleepDone(i) ==
    /\ calls[i].pc = "sleeping"
    /\ calls' = [calls EXCEPT ![i] = AfterSleep(calls[i])]
    /\ txn' = OperationEntered(calls'[i], txn)
    /\ UNCHANGED <<audit, toolkit, mgrVars, ledger>>

(***************************************************************************)
(* TransactionManager.executeTransaction (the same body is repeated in     *)
(* TokenManager and ContractManager)                                       *)
(***************************************************************************)
ComputeBudgetProgram == "ComputeBudget111111111111111111111111111111"

\* data: Buffer.from([0, ...Uint32Array([computeUnits])]); the arguments of
\* the model are all below 2^31, where the Uint32Array conversion keeps them
\* as they are
ComputeUnitInstruction(computeUnits) ==
    [programId |-> ComputeBudgetProgram, data |-> <<0, computeUnits>>]

\* data: Buffer.from([3, ...Uint32Array([priorityFee])])
PriorityFeeInstruction(priorityFee) ==
    [programId |-> ComputeBudgetProgram, data |-> <<3, priorityFee>>]

\* an instruction the caller put into the transaction
CallerInstruction(n) == [programId |-> "CallerProgram", data |-> <<9, n>>]

\* mutant of AddBudgetInstructions: the budget instructions go in front
AddBudgetInstructions_InFront(instructions, computeUnits, priorityFee) ==
    LET a == IF computeUnits # DefaultComputeUnits
             THEN <<ComputeUnitInstruction(computeUnits)>> \o instructions
             ELSE instructions
    IN  IF priorityFee > 0
        THEN <<PriorityFeeInstruction(priorityFee)>> \o a
        ELSE a

\* the two `transaction.add(...)` of the operation body
AddBudgetInstructions(instructions, computeUnits, priorityFee) ==
    LET a == IF computeUnits # DefaultComputeUnits
             THEN Append(instructions, ComputeUnitInstruction(computeUnits))
             ELSE instructions
    IN  IF priorityFee > 0
        THEN Append(a, PriorityFeeInstruction(priorityFee))
        ELSE a

\* mutant of Stamp: a transaction that already has a blockhash keeps it
Stamp_KeepsFirstBlockhash(t, latestBlockhash) ==
    IF t.recentBlockhash # 0
    THEN [t EXCEPT !.latestBlockhash = latestBlockhash,
                   !.steps = Append(@, "Stamped")]
    ELSE [t EXCEPT !.latestBlockhash = latestBlockhash,
                   !.recentBlockhash = latestBlockhash.blockhash,
                   !.lastValidBlockHeight = latestBlockhash.lastValidBlockHeight,
                   !.steps = Append(@, "Stamped")]

\* const latestBlockhash = ...; transaction.recentBlockhash = ...;
\* transaction.lastValidBlockHeight = ...
Stamp(t, latestBlockhash) ==
    [t EXCEPT !.latestBlockhash = latestBlockhash,
              !.recentBlockhash = latestBlockhash.blockhash,
              !.lastValidBlockHeight = latestBlockhash.lastValidBlockHeight,
              !.steps = Append(@, "Stamped")]

\* the two conditional transaction.add(...) applied to the transaction
Augment(t) ==
    [t EXCEPT !.instructions = AddBudgetInstructions(@, t.computeUnits,
                                                     t.priorityFee),
              !.steps = Append(@, "BudgetAugmented")]

\* mutant of Build: the budget instructions are added before the blockhash
\* is stamped
Build_AugmentsBeforeStamp(t, latestBlockhash) ==
    Stamp(Augment(t), latestBlockhash)

\* the body from the resolved getLatestBlockhash() to transaction.sign
Build(t, latestBlockhash) == Augment(Stamp(t, latestBlockhash))

\* Transaction.sign(...signers) throws when there are no signers
SignThrows(t) == t.signers = <<>>

\* transaction.sign(...signers): the signatures cover the message as it is
\* now, recentBlockhash included
Sign(t) == [t EXCEPT !.signedBlockhash = t.recentBlockhash,
                     !.signedInstructions = t.instructions,
                     !.steps = Append(@, "Signed")]

\* what the remote receives from connection.sendTransaction(transaction, ...)
Envelope(t, attempt) ==
    [attempt |-> attempt, instructions |-> t.instructions,
     recentBlockhash |-> t.recentBlockhash,
     lastValidBlockHeight |-> t.lastValidBlockHeight,
     signedBlockhash |-> t.signedBlockhash,
     signedInstructions |-> t.signedInstructions,
     maxRetries |-> t.maxRetries]

\* the slots a blockhash stays valid
BlockhashValidity == 150

IdleTxn ==
    [pc |-> "idle", callerInstructions |-> <<>>, instructions |-> <<>>,
     signers |-> <<>>, computeUnits |-> DefaultComputeUnits, priorityFee |-> 0,
     recentBlockhash |-> 0, lastValidBlockHeight |-> 0, signedBlockhash |-> 0,
     signedInstructions |-> <<>>,
     latestBlockhash |-> [blockhash |-> 0, lastValidBlockHeight |-> 0],
     signature |-> 0, steps |-> <<>>, maxRetries |-> 3]

\* landed: the submissions (by position in submitted) the cluster has
\* processed into a block
IdleLedger == [height |-> 0, fetched |-> <<>>, submitted |-> <<>>,
               confirms |-> <<>>, landed |-> {}]

CallerInstructionLists ==
    {<<CallerInstruction(1)>>, <<CallerInstruction(1), CallerInstruction(2)>>,
     <<CallerInstruction(2), CallerInstruction(1)>>}
SignerLists == {<<>>, <<"payer">>}
ComputeUnitsArgs == {DefaultComputeUnits, 300000}
PriorityFeeArgs == {0, 1000}

\* the options of executeTransaction after destructuring: maxRetries = 3
\* when left out (mrOpt = <<>>)
TransactionOf(instructions, signers, computeUnits, priorityFee, mrOpt) ==
    [IdleTxn EXCEPT !.callerInstructions = instructions,
                    !.instructions = instructions,
                    !.signers = signers,
                    !.computeUnits = computeUnits,
                    !.priorityFee = priorityFee,
                    !.maxRetries = IF mrOpt = <<>> THEN 3 ELSE mrOpt[1]]

\* mutant of ExecuteWithRetryOf: the maxRetries option is handed to
\* executeWithRetry as well
ExecuteWithRetryOf_OptionSetsAttempts(t) ==
    Enter("executeTransaction", "", <<t.maxRetries>>)

\* this.connectionManager.executeWithRetry(async (connection) => {...}) of
\* executeTransaction: one argument, the operation
ExecuteWithRetryOf(t) == Enter("executeTransaction", "", <<>>)

\* executeTransaction(transaction, signers, options) runs to its first await
StartExecuteTransaction(i, t) ==
    /\ calls' = [calls EXCEPT ![i] = ExecuteWithRetryOf(t)]
    /\ txn' = OperationEntered(calls'[i], t)

\* executeTransaction(transaction, signers, {computeUnits, priorityFee})
CallExecuteTransaction(i, instructions, signers, computeUnits, priorityFee) ==
    /\ calls[i].pc = "idle"
    /\ StartExecuteTransaction(i,
            TransactionOf(instructions, signers, computeUnits, priorityFee,
                          <<>>))
    /\ UNCHANGED <<audit, toolkit, mgrVars, ledger>>

InTransaction(i, pc) ==
    /\ calls[i].pc = "invoking"
    /\ calls[i].kind = "executeTransaction"
    /\ txn.pc = pc

\* the operation body throws e: the catch block of executeWithRetry runs
OperationThrows(i, e, outcome, t) ==
    /\ calls' = [calls EXCEPT ![i] = Recorded(Catch(calls[i], e), outcome)]
    /\ txn' = [t EXCEPT !.pc = "idle"]

\* getLatestBlockhash() resolved: stamp, add the budget instructions, sign and
\* call connection.sendTransaction
BlockhashResolve(i) ==
    /\ InTransaction(i, "getLatestBlockhash")
    /\ LET h == ledger.height + 1
           latestBlockhash == [blockhash |-> h,
                               lastValidBlockHeight |-> h + BlockhashValidity]
           built == Build(txn, latestBlockhash)
           fetched == Append(ledger.fetched,
                        [attempt |-> calls[i].attempt,
                         blockhash |-> latestBlockhash.blockhash,
                         lastValidBlockHeight |->
                            latestBlockhash.lastValidBlockHeight])
       IN  IF SignThrows(built)
           THEN /\ OperationThrows(i, PlainError(<<"No signers">>), "sign",
                                   built)
                /\ ledger' = [ledger EXCEPT !.height = h, !.fetched = fetched]
           ELSE /\ txn' = [Sign(built) EXCEPT !.pc = "sendTransaction",
                                               !.steps = Append(@, "Submitted")]
                /\ ledger' = [ledger EXCEPT
                        !.height = h, !.fetched = fetched,
                        !.submitted = Append(@, Envelope(Sign(built),
                                                         calls[i].attempt))]
                /\ UNCHANGED calls
    /\ UNCHANGED <<audit, toolkit, mgrVars>>

BlockhashReject(i) ==
    /\ InTransaction(i, "getLatestBlockhash")
    /\ OperationThrows(i, PlainError(<<"failed to get recent blockhash">>),
                       "blockhash", txn)
    /\ UNCHANGED <<audit, toolkit, mgrVars, ledger>>

\* sendTransaction resolved with a signature: confirmTransaction is called
\* with the blockhash held in the local latestBlockhash
SendResolve(i) ==
    /\ InTransaction(i, "sendTransaction")
    /\ txn' = [txn EXCEPT !.pc = "confirmTransaction",
                          !.signature = Len(ledger.submitted)]
    /\ ledger' = [ledger EXCEPT !.confirms = Append(@,
                    [attempt |-> calls[i].attempt,
                     signature |-> Len(ledger.submitted),
                     blockhash |-> txn.latestBlockhash.blockhash,
                     lastValidBlockHeight |->
                        txn.latestBlockhash.lastValidBlockHeight])]
    /\ UNCHANGED <<audit, toolkit, mgrVars, calls>>

SendReject(i) ==
    /\ InTransaction(i, "sendTransaction")
    /\ OperationThrows(i, PlainError(<<"failed to send transaction">>), "send",
                       txn)
    /\ UNCHANGED <<audit, toolkit, mgrVars, ledger>>

OnChainErrors == {"InstructionError"}

\* confirmTransaction resolved with value.err null: the body returns
ConfirmOk(i) ==
    /\ InTransaction(i, "confirmTransaction")
    /\ calls' = [calls EXCEPT ![i] = Recorded(Return(calls[i], "signature"),
                                              "ok")]
    /\ txn' = [txn EXCEPT !.pc = "idle", !.steps = Append(@, "Confirmed")]
    /\ UNCHANGED <<audit, toolkit, mgrVars, ledger>>

\* confirmTransaction resolved with value.err set: the body throws
ConfirmErr(i, err) ==
    /\ InTransaction(i, "confirmTransaction")
    /\ OperationThrows(i, PlainError(<<"Transaction failed: ", err>>),
                       "rejected", [txn EXCEPT !.steps = Append(@, "Failed")])
    /\ UNCHANGED <<audit, toolkit, mgrVars, ledger>>

\* confirmTransaction gave up waiting (block height exceeded, or the
\* confirmTransactionInitialTimeout of the connection) and rejected
ConfirmTimeout(i) ==
    /\ InTransaction(i, "confirmTransaction")
    /\ OperationThrows(i, PlainError(<<"Transaction was not confirmed">>),
                       "timeout", [txn EXCEPT !.steps = Append(@, "TimedOut")])
    /\ UNCHANGED <<audit, toolkit, mgrVars, ledger>>

(***************************************************************************)
(* getAccountInfo, getProgramAccountInfo, getTransactionDetails            *)
(***************************************************************************)
QueryKinds == {"getAccountInfo", "getProgramAccountInfo",
               "getTransactionDetails"}

NotFoundError(kind, subject) ==
    CASE kind = "getAccountInfo" ->
            SolanaToolkitError(<<"Account not found">>, "ACCOUNT_NOT_FOUND",
                               [NoContext EXCEPT !.subject = subject])
      [] kind = "getProgramAccountInfo" ->
            SolanaToolkitError(<<"Program account not found">>,
                               "PROGRAM_ACCOUNT_NOT_FOUND",
                               [NoContext EXCEPT !.subject = subject])
      [] OTHER ->
            SolanaToolkitError(<<"Transaction not found">>,
                               "TRANSACTION_NOT_FOUND",
                               [NoContext EXCEPT !.subject = subject])

Subjects == {"key1", "key2"}

\* the manager method calls executeWithRetry without maxRetries
CallQuery(i, kind, subject) ==
    /\ calls[i].pc = "idle"
    /\ calls' = [calls EXCEPT ![i] = Enter(kind, subject, <<>>)]
    /\ UNCHANGED <<audit, toolkit, mgrVars, txn, ledger>>

InQuery(i) ==
    /\ calls[i].pc = "invoking"
    /\ calls[i].kind \in QueryKinds

\* the remote answered with the entity
QueryFound(i) ==
    /\ InQuery(i)
    /\ calls' = [calls EXCEPT ![i] = Recorded(Return(calls[i], "info"), "ok")]
    /\ UNCHANGED <<audit, toolkit, mgrVars, txn, ledger>>

\* the remote answered null: the body throws the not-found error
QueryNull(i) ==
    /\ InQuery(i)
    /\ calls' = [calls EXCEPT ![i] =
            Recorded(Catch(calls[i],
                           NotFoundError(calls[i].kind, calls[i].subject)),
                     "null")]
    /\ UNCHANGED <<audit, toolkit, mgrVars, txn, ledger>>

\* the RPC call rejected
QueryReject(i) ==
    /\ InQuery(i)
    /\ calls' = [calls EXCEPT ![i] =
            Recorded(Catch(calls[i], PlainError(<<"fetch failed">>)), "fetch")]
    /\ UNCHANGED <<audit, toolkit, mgrVars, txn, ledger>>

(***************************************************************************)
(* SolanaToolkit, Configuration and Logger.  An option the caller leaves   *)
(* out (undefined) is <<>>, an option given is <<value>>.                  *)
(***************************************************************************)
\* new Configuration()
NewConfiguration ==
    [defaultCommitment |-> "confirmed", maxRetries |-> 3, retryDelay |-> 1000,
     timeout |-> 60000, loggingEnabled |-> FALSE]

\* what the last call of the toolkit's configuration API was, what it threw
\* and what it returned
NoApiCall == [op |-> "", commitment |-> <<>>, network |-> "", amount |-> <<>>,
              thrown |-> "",
              returned |-> <<>>]

\* the same toolkit operation replayed with a Logger that does nothing: its
\* call of executeWithRetry, its position and the RPC calls it has issued
QuietWorld == [call |-> IdleCall, pc |-> "idle", remote |-> <<>>]

\* batchTransactions: the loop index i, the results pushed, the transactions
\* started (a note, not program state) and the report returned
IdleBatch == [pc |-> "idle", size |-> 0, i |-> 0, maxRetries |-> 3,
              results |-> <<>>, started |-> <<>>,
              report |-> [total |-> 0, successful |-> 0, failed |-> 0]]

\* getOrCreateAssociatedTokenAccount: where it stands, how often it has run
\* createAssociatedTokenAccount, what it returned or threw, and the answers
\* the remote gave to its getAccountInfo (a note, not program state)
IdleToken == [pc |-> "idle", created |-> 0, exists |-> <<>>,
              signature |-> 0, error |-> NoError, answers |-> <<>>]

\* new SolanaToolkit(endpoint, options) with options.enableLogging left out:
\* options.maxRetries and options.retryDelay are not read by the constructor
NewToolkit ==
    [config |-> NewConfiguration, logger |-> [enabled |-> FALSE],
     console |-> <<>>, last |-> NoApiCall, remote |-> <<>>, quiet |-> QuietWorld,
     batch |-> IdleBatch, token |-> IdleToken]

\* the own keys of Configuration.networks
networks == {"mainnet", "testnet", "devnet", "localnet"}

\* keys every object literal inherits from Object.prototype
ObjectPrototypeKeys == {"constructor", "toString"}

\* this.networks[networkName]: own properties, then the prototype chain
NetworkLookup(networkName) ==
    IF networkName \in networks THEN <<"url of ", networkName>>
    ELSE IF networkName \in ObjectPrototypeKeys THEN <<"function ", networkName>>
    ELSE <<>>

\* Configuration.setNetwork(networkName): <<thrown code, returned value>>
setNetwork(networkName) ==
    IF NetworkLookup(networkName) = <<>>
    THEN [thrown |-> "INVALID_NETWORK", returned |-> <<>>]
    ELSE [thrown |-> "", returned |-> NetworkLookup(networkName)]

validCommitments == {"processed", "confirmed", "finalized"}

\* Configuration.setCommitment(commitment)
setCommitment(config, newCommitment) ==
    IF newCommitment \notin validCommitments
    THEN [config |-> config, thrown |-> "INVALID_COMMITMENT"]
    ELSE [config |-> [config EXCEPT !.defaultCommitment = newCommitment],
          thrown |-> ""]

\* Configuration.setRetryConfig(maxRetries, retryDelay)
setRetryConfig(config, maxRetries, delay) ==
    [config EXCEPT !.maxRetries = maxRetries, !.retryDelay = delay]

\* Configuration.setTimeout(timeout)
setTimeout(config, timeout) == [config EXCEPT !.timeout = timeout]

\* Configuration.enableLogging(enabled)
enableLogging(config, enabled) == [config EXCEPT !.loggingEnabled = enabled]

\* JavaScript truthiness of an option: given, and not the empty string
TruthyString(opt) == opt # <<>> /\ opt[1] # ""

\* JavaScript truthiness of an option: given, and not 0
TruthyNumber(opt) == opt # <<>> /\ opt[1] # 0

\* SolanaToolkit.setConfig(options): the toolkit after the call
setConfig(tk, options) ==
    LET c1 == IF TruthyString(options.commitment)
              THEN setCommitment(tk.config, options.commitment[1])
              ELSE [config |-> tk.config, thrown |-> ""]
        c2 == IF options.maxRetries # <<>>
              THEN setRetryConfig(c1.config, options.maxRetries[1],
                        IF TruthyNumber(options.retryDelay) THEN options.retryDelay[1]
                        ELSE 1000)
              ELSE c1.config
        c3 == IF options.timeout # <<>> THEN setTimeout(c2, options.timeout[1])
              ELSE c2
        c4 == IF options.enableLogging # <<>>
              THEN enableLogging(c3, options.enableLogging[1])
              ELSE c3
    IN  IF c1.thrown # ""
        THEN [tk EXCEPT !.last = [NoApiCall EXCEPT !.op = "setConfig",
                                    !.commitment = options.commitment,
                                    !.thrown = c1.thrown]]
        ELSE [tk EXCEPT !.config = c4,
                        !.logger.enabled =
                            IF options.enableLogging # <<>>
                            THEN options.enableLogging[1] ELSE @,
                        !.last = [NoApiCall EXCEPT !.op = "setConfig",
                                    !.commitment = options.commitment]]

(***************************************************************************)
(* Specifications                                                          *)
(***************************************************************************)
\* new ConnectionManager(endpoint, commitment) returned
Init ==
    /\ endpoint = "devnet"
    /\ commitment = "confirmed"
    /\ connection = NewConnection(1, endpoint, commitment)
    /\ isHealthy = TRUE
    /\ lastHealthCheck = 0
    /\ now = 0
    /\ timers = {NewTimer(connection)}
    /\ probes = {}
    /\ switchError = ""
    /\ calls = [i \in CallIds |-> IdleCall]
    /\ txn = IdleTxn
    /\ ledger = IdleLedger
    /\ audit = NoAudit
    /\ toolkit = NewToolkit

\* the probe loop and the clock, nobody observing
Monitor ==
    \/ \E t \in timers : TimerTick(t) /\ UNCHANGED audit
    \/ \E p \in probes : ProbeResolve(p) /\ UNCHANGED audit
    \/ \E p \in probes : ProbeReject(p) /\ UNCHANGED audit
    \/ ClockAdvance

\* executeWithRetry of a caller-supplied operation, probes running
Next ==
    \/ Monitor
    \/ \E i \in DOMAIN calls, arg \in MaxRetriesArgs : Call(i, arg)
    \/ \E i \in DOMAIN calls : OperationResolve(i)
    \/ \E i \in DOMAIN calls, e \in OperationErrors : OperationReject(i, e)
    \/ \E i \in DOMAIN calls : SleepDone(i)

Spec == Init /\ [][Next]_vars

\* the ConnectionManager with network switches, no foreground call
NextSwitch ==
    \/ Monitor
    \/ \E ep \in Endpoints, cm \in {<<>>} \cup {<<c>> : c \in Commitments} :
            SwitchNetwork(ep, cm)

SpecSwitch == Init /\ [][NextSwitch]_vars

\* executeWithRetry of a caller-supplied operation, the probes observed
NextProbes ==
    \/ \E t \in timers : ObservedTick(t)
    \/ \E p \in probes : ObservedResolve(p)
    \/ \E p \in probes : ObservedReject(p)
    \/ ClockAdvance
    \/ \E i \in DOMAIN calls, arg \in MaxRetriesArgs : Call(i, arg)
    \/ \E i \in DOMAIN calls : OperationResolve(i)
    \/ \E i \in DOMAIN calls, e \in OperationErrors : OperationReject(i, e)
    \/ \E i \in DOMAIN calls : SleepDone(i)

SpecProbes == Init /\ [][NextProbes]_vars

\* one executeTransaction, probes running
NextTx ==
    \/ Monitor
    \/ \E i \in DOMAIN calls, ins \in CallerInstructionLists,
          sg \in SignerLists, cu \in ComputeUnitsArgs, pf \in PriorityFeeArgs :
            CallExecuteTransaction(i, ins, sg, cu, pf)
    \/ \E i \in DOMAIN calls : BlockhashResolve(i)
    \/ \E i \in DOMAIN calls : BlockhashReject(i)
    \/ \E i \in DOMAIN calls : SendResolve(i)
    \/ \E i \in DOMAIN calls : SendReject(i)
    \/ \E i \in DOMAIN calls : ConfirmOk(i)
    \/ \E i \in DOMAIN calls, err \in OnChainErrors : ConfirmErr(i, err)
    \/ \E i \in DOMAIN calls : ConfirmTimeout(i)
    \/ \E i \in DOMAIN calls : SleepDone(i)

SpecTx == Init /\ [][NextTx]_vars

\* one account, program-account or transaction query, probes running
NextQuery ==
    \/ Monitor
    \/ \E i \in DOMAIN calls, kind \in QueryKinds, sb \in Subjects :
            CallQuery(i, kind, sb)
    \/ \E i \in DOMAIN calls : QueryFound(i)
    \/ \E i \in DOMAIN calls : QueryNull(i)
    \/ \E i \in DOMAIN calls : QueryReject(i)
    \/ \E i \in DOMAIN calls : SleepDone(i)

SpecQuery == Init /\ [][NextQuery]_vars

(***************************************************************************)
(* Properties of executeWithRetry                                          *)
(***************************************************************************)
ShortCircuits(c) ==
    {k \in 1..Len(c.errors) : c.errors[k].code = "UNHEALTHY_CONNECTION"}

AlwaysHealthy(c) == ShortCircuits(c) = {}

AlwaysFailing(c) == \A k \in 1..Len(c.outcomes) : c.outcomes[k] # "ok"

\* C1: with maxRetries = n >= 1, the link healthy at every attempt and an
\* operation that fails at every invocation, executeWithRetry never invokes
\* the operation more than n times, and when it raises it has invoked it
\* exactly n times and raises OPERATION_FAILED with n recorded in the context.
C1_AlwaysFailingMakesExactlyNAttempts ==
    \A i \in DOMAIN calls :
        LET c == calls[i] IN
        (c.maxRetries >= 1 /\ AlwaysHealthy(c) /\ AlwaysFailing(c)) =>
            /\ c.invoked <= c.maxRetries
            /\ c.pc # "returned"
            /\ c.pc = "raised" =>
                /\ c.invoked = c.maxRetries
                /\ Len(c.outcomes) = c.maxRetries
                /\ c.error.type = "SolanaToolkitError"
                /\ c.error.code = "OPERATION_FAILED"
                /\ c.error.context.maxRetries = c.invoked

C1_Witness ==
    \E i \in DOMAIN calls :
        /\ calls[i].pc = "raised"
        /\ calls[i].maxRetries = 3
        /\ calls[i].outcomes = <<"E1", "E2", "E1">>
        /\ AlwaysHealthy(calls[i])

\* C2: when the operation succeeds at its k-th invocation after failing at the
\* k-1 before (no attempt short-circuited), executeWithRetry has returned that
\* result without raising, k <= n, the operation was invoked exactly k times,
\* there were k-1 sleeps, and nothing of this changes afterwards.
C2_SuccessOnAttemptKReturns ==
    \A i \in DOMAIN calls :
        LET c == calls[i] IN
        (Len(c.outcomes) > 0 /\ Last(c.outcomes) = "ok" /\ AlwaysHealthy(c)) =>
            /\ c.pc = "returned"
            /\ c.result = "value"
            /\ c.error = NoError
            /\ c.attempt = Len(c.outcomes)
            /\ c.attempt <= c.maxRetries
            /\ c.invoked = c.attempt
            /\ Len(c.sleeps) = c.attempt - 1
            /\ \A k \in 1..(Len(c.outcomes) - 1) : c.outcomes[k] # "ok"

C2_Witness ==
    \E i \in DOMAIN calls :
        /\ calls[i].pc = "returned"
        /\ calls[i].maxRetries = 3
        /\ calls[i].outcomes = <<"E1", "E2", "ok">>
        /\ calls[i].invoked = 3

\* an attempt of call i starts in this step
AttemptStarts(i) ==
    /\ calls[i].pc \in {"idle", "sleeping"}
    /\ calls'[i] # calls[i]
    /\ calls'[i].maxRetries >= 1

\* C3: an attempt that starts while isHealthy is false does not invoke the
\* operation, fails with UNHEALTHY_CONNECTION and uses up one of the
\* maxRetries attempts; a call all of whose n attempts were short-circuited
\* has invoked the operation 0 times and has raised after n attempts.
C3_UnhealthyAttemptShortCircuits ==
    /\ [][\A i \in DOMAIN calls :
            (~isHealthy /\ AttemptStarts(i)) =>
                /\ calls'[i].invoked = calls[i].invoked
                /\ calls'[i].outcomes = calls[i].outcomes
                /\ Len(calls'[i].errors) = Len(calls[i].errors) + 1
                /\ Last(calls'[i].errors).code = "UNHEALTHY_CONNECTION"
                /\ calls'[i].attempt = Len(calls'[i].errors)
                /\ calls'[i].pc =
                     IF calls'[i].attempt = calls'[i].maxRetries
                     THEN "raised" ELSE "sleeping"]_vars
    /\ [](\A i \in DOMAIN calls :
            LET c == calls[i] IN
            (c.maxRetries >= 1 /\ c.pc \in {"returned", "raised"}
                /\ c.outcomes = <<>>) =>
                    /\ c.pc = "raised"
                    /\ c.invoked = 0
                    /\ Len(c.errors) = c.maxRetries
                    /\ ShortCircuits(c) = 1..c.maxRetries
                    /\ c.error.code = "OPERATION_FAILED")

C3_Witness ==
    \E i \in DOMAIN calls :
        /\ ~isHealthy
        /\ calls[i].pc = "raised"
        /\ calls[i].maxRetries = 3
        /\ calls[i].invoked = 0
        /\ Len(calls[i].errors) = 3

\* C4: the k-th sleep of a call lasts retryDelay * 2^(k-1), after a failure by
\* exception and after a short-circuit alike; there are never more than n-1
\* sleeps, exactly n-1 when the n attempts are exhausted, and none when n = 1.
C4_BackoffDoublesFromRetryDelay ==
    \A i \in DOMAIN calls :
        LET c == calls[i] IN
        c.maxRetries >= 1 =>
            /\ \A k \in 1..Len(c.sleeps) : c.sleeps[k] = 1000 * 2^(k - 1)
            /\ Len(c.sleeps) <= c.maxRetries - 1
            /\ c.pc = "sleeping" => Len(c.sleeps) = Len(c.errors)
            /\ c.pc = "raised" =>
                /\ Len(c.sleeps) = c.maxRetries - 1
                /\ Len(c.errors) = c.maxRetries

C4_Witness ==
    \E i \in DOMAIN calls :
        /\ calls[i].pc = "raised"
        /\ calls[i].maxRetries = 4
        /\ calls[i].sleeps = <<1000, 2000, 4000>>
        /\ ShortCircuits(calls[i]) = {2}

(***************************************************************************)
(* Properties of executeTransaction                                        *)
(***************************************************************************)
IsComputeUnit(ins) == ins.programId = ComputeBudgetProgram /\ ins.data[1] = 0
IsPriorityFee(ins) == ins.programId = ComputeBudgetProgram /\ ins.data[1] = 3

ComputeUnitPositions(e) ==
    {k \in 1..Len(e.instructions) : IsComputeUnit(e.instructions[k])}
PriorityFeePositions(e) ==
    {k \in 1..Len(e.instructions) : IsPriorityFee(e.instructions[k])}

\* C5: every submitted envelope, of a first attempt or of a retry, holds no
\* compute-unit-limit instruction when computeUnits is the default and exactly
\* one otherwise, no priority-fee instruction when priorityFee = 0 and exactly
\* one otherwise, and the compute-unit-limit one comes first when both are there.
C5_OneBudgetInstructionPerEnvelope ==
    \A k \in 1..Len(ledger.submitted) :
        LET e == ledger.submitted[k] IN
        /\ Cardinality(ComputeUnitPositions(e)) =
              IF txn.computeUnits # 200000 THEN 1 ELSE 0
        /\ Cardinality(PriorityFeePositions(e)) =
              IF txn.priorityFee > 0 THEN 1 ELSE 0
        /\ \A a \in ComputeUnitPositions(e), b \in PriorityFeePositions(e) :
              a < b

\* C6: in every submitted envelope the caller's instructions are the first
\* instructions, in the caller's order, and all that follows them are budget
\* instructions; with computeUnits = default and priorityFee = 0 the envelope
\* holds the caller's instructions and nothing else.
C6_CallerInstructionsStayInFront ==
    \A k \in 1..Len(ledger.submitted) :
        LET e == ledger.submitted[k]
            n == Len(txn.callerInstructions)
        IN  /\ Len(e.instructions) >= n
            /\ SubSeq(e.instructions, 1, n) = txn.callerInstructions
            /\ \A j \in (n + 1)..Len(e.instructions) :
                  e.instructions[j].programId = ComputeBudgetProgram
            /\ e.signedInstructions = e.instructions
            /\ (txn.computeUnits = 200000 /\ txn.priorityFee = 0) =>
                  e.instructions = txn.callerInstructions

C6_Witness ==
    /\ Len(ledger.submitted) = 2
    /\ ledger.submitted[2].attempt = 2
    /\ txn.callerInstructions = <<CallerInstruction(2), CallerInstruction(1)>>
    /\ txn.computeUnits = 300000
    /\ txn.priorityFee = 1000
    /\ Len(ledger.submitted[2].instructions) > 2

FetchedIn(attempt) ==
    {k \in 1..Len(ledger.fetched) : ledger.fetched[k].attempt = attempt}

\* C7: every attempt starts at blockhash acquisition whatever step failed in
\* the attempt before; an attempt fetches one blockhash, different from those
\* of earlier attempts, and the envelope it stamps, signs and submits and the
\* confirmation it waits for carry the blockhash and expiry height of that fetch.
C7_EveryAttemptUsesItsOwnBlockhash ==
    /\ \A i \in DOMAIN calls :
          (calls[i].kind = "executeTransaction" /\ calls[i].pc = "invoking") =>
              IF txn.pc = "getLatestBlockhash"
              THEN FetchedIn(calls[i].attempt) = {}
              ELSE /\ txn.pc \in {"sendTransaction", "confirmTransaction"}
                   /\ FetchedIn(calls[i].attempt) = {Len(ledger.fetched)}
    /\ \A j, k \in 1..Len(ledger.fetched) :
          j < k => /\ ledger.fetched[j].attempt < ledger.fetched[k].attempt
                   /\ ledger.fetched[j].blockhash # ledger.fetched[k].blockhash
    /\ \A k \in 1..Len(ledger.submitted) :
          LET e == ledger.submitted[k] IN
          \E j \in FetchedIn(e.attempt) :
              /\ e.recentBlockhash = ledger.fetched[j].blockhash
              /\ e.lastValidBlockHeight = ledger.fetched[j].lastValidBlockHeight
              /\ e.signedBlockhash = ledger.fetched[j].blockhash
    /\ \A k \in 1..Len(ledger.confirms) :
          LET c == ledger.confirms[k] IN
          \E j \in FetchedIn(c.attempt) :
              /\ c.blockhash = ledger.fetched[j].blockhash
              /\ c.lastValidBlockHeight = ledger.fetched[j].lastValidBlockHeight
              /\ ledger.submitted[c.signature].attempt = c.attempt

C7_Witness ==
    /\ \E i \in DOMAIN calls : calls[i].outcomes = <<"send", "timeout">>
    /\ txn.pc = "confirmTransaction"
    /\ Len(ledger.submitted) = 3
    /\ ledger.submitted[3].recentBlockhash = 3
    /\ ledger.submitted[1].recentBlockhash = 1

\* the code of the error executeTransaction raises when the last attempt ended
\* with an on-chain error reported by the remote
RejectedCode ==
    ManagerCatch("executeTransaction", "",
        OperationFailedError(retryAttempts,
            PlainError(<<"Transaction failed: ", "InstructionError">>))).code

\* C8: an executeTransaction whose last attempt ended with the confirmation
\* wait running out raises an error whose code differs from the code raised
\* for a transaction the remote reported as failed on chain.
C8_TimeoutIsDistinctFromRejection ==
    \A i \in DOMAIN calls :
        LET c == calls[i] IN
        (c.kind = "executeTransaction" /\ c.pc = "raised"
            /\ c.lastError.message = <<"Transaction was not confirmed">>) =>
                c.error.code # RejectedCode

(***************************************************************************)
(* Properties of the queries                                               *)
(***************************************************************************)
\* C9: once the remote has answered null to a query, the query has been
\* invoked exactly once, the call has raised, and there was no backoff sleep.
C9_NotFoundIsNotRetried ==
    \A i \in DOMAIN calls :
        LET c == calls[i] IN
        (c.kind \in QueryKinds /\ \E k \in 1..Len(c.outcomes) :
                                      c.outcomes[k] = "null") =>
            /\ c.pc = "raised"
            /\ c.invoked = 1
            /\ c.sleeps = <<>>

(***************************************************************************)
(* Properties of the probe loop                                            *)
(***************************************************************************)
\* C10: a probe started by the loop of an earlier connection (before or after
\* the switch) that completes once another connection is active leaves
\* isHealthy and lastHealthCheck as they are.
C10_OldLoopWritesNothing ==
    [][\A p \in probes :
          (p \notin probes' /\ p.timer # connection.id) =>
              (isHealthy' = isHealthy /\ lastHealthCheck' = lastHealthCheck)]_vars

(***************************************************************************)
(* Properties of switchNetwork                                             *)
(***************************************************************************)
\* C11: when switchNetwork has installed a new connection isHealthy is true,
\* whatever it was before, and the flag only turns false afterwards when a
\* probe of the new connection completes.
C11_SwitchResetsHealthFlag ==
    [][/\ connection' # connection => isHealthy'
       /\ (connection.id > 1 /\ isHealthy /\ ~isHealthy') =>
             \E p \in probes : p \notin probes' /\ p.conn = connection.id]_vars

\* C12: after construction and after any number of switches exactly one
\* interval is registered.
C12_OneProbeTimer == Cardinality(timers) = 1

\* C13: the endpoint and commitment of the manager are always those the
\* active connection object was created with, also after a switchNetwork
\* that raised CONNECTION_INIT_ERROR.
C13_EndpointMatchesConnection ==
    /\ endpoint = connection.endpoint
    /\ commitment = connection.commitment
    /\ getHealthStatus.endpoint = connection.endpoint
    /\ getHealthStatus.commitment = connection.commitment

(***************************************************************************)
(* Properties of the probe loop, observed                                  *)
(***************************************************************************)
\* C14: whenever no probe is in flight and the probe started last has
\* completed, isHealthy is the outcome of that probe: true iff it resolved
\* in under 5000 ms.
C14_FlagIsOutcomeOfLatestStartedProbe ==
    (probes = {} /\ audit.latestDone \in {"resolved", "rejected"}) =>
        isHealthy = (audit.latestDone = "resolved" /\ audit.latestElapsed < 5000)

\* C15: after a probe resolved, isHealthy is true iff its elapsed time was
\* below 5000 ms; after a probe threw, isHealthy is false; the step in which
\* a probe completes changes no executeWithRetry call and removes no interval,
\* so that a later fast probe turns a false flag back to true.
C15_ProbeSetsFlagByLatency ==
    /\ [](/\ audit.how = "resolved" => isHealthy = (audit.elapsed < 5000)
          /\ audit.how = "rejected" => ~isHealthy)
    /\ [][(\E p \in probes : p \notin probes') =>
              (calls' = calls /\ timers' = timers /\ timers # {})]_vars

C15_Witness ==
    /\ audit.how = "resolved"
    /\ audit.elapsed = 2500
    /\ ~audit.before
    /\ isHealthy

\* C16: isHealthy changes only in a step in which a probe completes, never
\* in a step of executeWithRetry or of the clock, and it is true as long as
\* no probe has completed.
C16_OnlyProbesWriteFlag ==
    /\ [](audit.how = "none" => isHealthy)
    /\ [][isHealthy' # isHealthy =>
              (\E p \in probes : p \notin probes') /\ calls' = calls]_vars

C16_Witness ==
    /\ \E i \in DOMAIN calls : calls[i].pc = "raised" /\ calls[i].invoked = 3
    /\ now = 5000
    /\ lastHealthCheck = 0
    /\ audit.how = "none"
    /\ isHealthy

(***************************************************************************)
(* Properties of the error executeWithRetry raises                         *)
(***************************************************************************)
\* what .message of the failure of the last attempt was: the operation's own
\* record when it was invoked, the unhealthy-connection text when it was not
LastFailureMessage(c) ==
    IF Len(c.errors) \in ShortCircuits(c)
    THEN <<"Connection is unhealthy">>
    ELSE <<Last(c.outcomes)>>

\* C17: the error raised when the attempts are exhausted carries, in its
\* message and in context.lastError, the message of the failure of attempt n:
\* the operation's last error, or the unhealthy-connection message when
\* attempt n was short-circuited.
C17_ExhaustedErrorCarriesLastFailure ==
    \A i \in DOMAIN calls :
        LET c == calls[i] IN
        (c.pc = "raised" /\ c.maxRetries >= 1) =>
            /\ Len(c.errors) = c.maxRetries
            /\ c.error.context.lastError = LastFailureMessage(c)
            /\ c.error.message =
                  <<"Operation failed after ", ToString(c.maxRetries),
                    " attempts: ">> \o LastFailureMessage(c)

C17_Witness ==
    \E i \in DOMAIN calls :
        /\ calls[i].pc = "raised"
        /\ calls[i].outcomes = <<"E1", "E2">>
        /\ calls[i].maxRetries = 3
        /\ ShortCircuits(calls[i]) = {2}
        /\ calls[i].error.context.lastError = <<"E2">>

\* C18: a call of executeWithRetry that has raised has raised a
\* SolanaToolkitError with a code, whatever maxRetries was passed.
C18_OnlyToolkitErrorsEscape ==
    \A i \in DOMAIN calls :
        calls[i].pc = "raised" =>
            /\ calls[i].error.type = "SolanaToolkitError"
            /\ calls[i].error.code # ""

(***************************************************************************)
(* Properties of the transaction lifecycle                                 *)
(***************************************************************************)
IsPrefix(s, t) == Len(s) <= Len(t) /\ SubSeq(t, 1, Len(s)) = s

Terminals == {"Confirmed", "Failed", "TimedOut"}

C20_OnChainErrorReachesCaller ==
    \A i \in DOMAIN calls :
        LET c == calls[i] IN
        (c.kind = "executeTransaction" /\ Len(c.outcomes) > 0) =>
            /\ Last(c.outcomes) = "rejected" => c.pc # "returned"
            /\ (c.pc = "raised" /\ \E k \in 1..Len(c.outcomes) :
                                        c.outcomes[k] = "rejected") =>
                  \E k \in 1..Len(c.error.context.error) :
                      c.error.context.error[k] \in OnChainErrors

(***************************************************************************)
(* Properties of the error a query raises                                  *)
(***************************************************************************)
NotFoundCodes == {"ACCOUNT_NOT_FOUND", "PROGRAM_ACCOUNT_NOT_FOUND",
                  "TRANSACTION_NOT_FOUND"}

\* C21: a query that has raised after the remote answered null at its last
\* invocation has raised the not-found code of its operation with the queried
\* entity in the context; a query that has raised after the RPC call rejected
\* has raised a code that is not a not-found code.
C21_NotFoundCodeReachesCaller ==
    \A i \in DOMAIN calls :
        LET c == calls[i] IN
        (c.kind \in QueryKinds /\ c.pc = "raised" /\ c.outcomes # <<>>) =>
            /\ Last(c.outcomes) = "null" =>
                /\ c.error.code =
                      CASE c.kind = "getAccountInfo" -> "ACCOUNT_NOT_FOUND"
                        [] c.kind = "getProgramAccountInfo" ->
                              "PROGRAM_ACCOUNT_NOT_FOUND"
                        [] OTHER -> "TRANSACTION_NOT_FOUND"
                /\ c.error.context.subject = c.subject
            /\ Last(c.outcomes) = "fetch" => c.error.code \notin NotFoundCodes

(***************************************************************************)
(* Two executeWithRetry activations on the same ConnectionManager.  The    *)
(* loop variables (attempt, lastError) are locals of each activation; the  *)
(* manager's fields are what the activations share.                        *)
(***************************************************************************)
ConcurrentCallIds == {1, 2}

\* the maxRetries arguments of the concurrent callers: omitted, or 2
ConcurrentArgs == {<<>>, <<retryAttempts - 1>>}

\* new ConnectionManager(...) returned, two callers about to call
InitConcurrent ==
    /\ endpoint = "devnet"
    /\ commitment = "confirmed"
    /\ connection = NewConnection(1, endpoint, commitment)
    /\ isHealthy = TRUE
    /\ lastHealthCheck = 0
    /\ now = 0
    /\ timers = {NewTimer(connection)}
    /\ probes = {}
    /\ switchError = ""
    /\ calls = [i \in ConcurrentCallIds |-> IdleCall]
    /\ txn = IdleTxn
    /\ ledger = IdleLedger
    /\ audit = NoAudit
    /\ toolkit = NewToolkit

NextConcurrent ==
    \/ \E t \in timers : TimerTick(t) /\ UNCHANGED audit
    \/ \E p \in probes : ProbeResolve(p) /\ UNCHANGED audit
    \/ \E p \in probes : ProbeReject(p) /\ UNCHANGED audit
    \/ \E i \in DOMAIN calls, arg \in ConcurrentArgs : Call(i, arg)
    \/ \E i \in DOMAIN calls : OperationResolve(i)
    \/ \E i \in DOMAIN calls, e \in OperationErrors : OperationReject(i, e)
    \/ \E i \in DOMAIN calls : SleepDone(i)

SpecConcurrent == InitConcurrent /\ [][NextConcurrent]_vars

\* C22: with two calls in flight on one manager, a step changes the record of
\* at most one call (attempt counter, last error, sleeps, result), whatever
\* the other call is doing; each call invokes the operation at most its own
\* maxRetries times, sleeps retryDelay * 2^(k-1) after its own k-th failure,
\* returns exactly when its own last invocation succeeded, and raises with
\* its own last failure after its own maxRetries failures.
C22_ConcurrentCallsAreIndependent ==
    /\ [][\A i, j \in DOMAIN calls :
            (i # j /\ calls'[j] # calls[j]) => calls'[i] = calls[i]]_vars
    /\ [](\A i \in DOMAIN calls :
            LET c == calls[i] IN
            c.pc # "idle" =>
                /\ c.invoked <= c.maxRetries
                /\ c.attempt <= c.maxRetries
                /\ c.invoked = Len(c.outcomes) + IF c.pc = "invoking" THEN 1 ELSE 0
                /\ \A k \in 1..Len(c.sleeps) : c.sleeps[k] = 1000 * 2^(k - 1)
                /\ Len(c.sleeps) = IF c.pc = "sleeping" THEN c.attempt
                                   ELSE c.attempt - 1
                /\ c.pc = "returned" <=>
                      (c.outcomes # <<>> /\ Last(c.outcomes) = "ok")
                /\ c.pc = "raised" =>
                      /\ Len(c.errors) = c.maxRetries
                      /\ c.lastError = Last(c.errors)
                      /\ c.error.context.lastError = Last(c.errors).message)

C22_Witness ==
    /\ calls[1].pc = "sleeping"
    /\ calls[1].maxRetries = 3
    /\ Len(calls[1].errors) = 2
    /\ calls[2].pc = "invoking"
    /\ calls[2].maxRetries = 2
    /\ calls[2].attempt = 2
    /\ calls[2].outcomes = <<"E2">>

(***************************************************************************)
(* Properties of probes racing with foreground calls                       *)
(***************************************************************************)
\* the operation of call i reports success in this step
Succeeds(i) ==
    /\ calls[i].pc = "invoking"
    /\ Len(calls'[i].outcomes) = Len(calls[i].outcomes) + 1
    /\ Last(calls'[i].outcomes) = "ok"

\* C23: the flag decides an attempt only when the attempt starts; a probe
\* that changes the flag while an invocation is in flight leaves the call as
\* it is, an invocation that succeeds is returned to the caller whatever the
\* flag is by then, and a probe in flight can complete in every state of the
\* foreground calls (invoking or in a backoff sleep).
C23_FlagIsReadNotLocked ==
    /\ [][\A i \in DOMAIN calls :
            /\ (AttemptStarts(i) /\ isHealthy) => calls'[i].pc = "invoking"
            /\ (calls[i].pc = "invoking" /\ isHealthy' # isHealthy) =>
                  calls'[i] = calls[i]
            /\ Succeeds(i) =>
                  /\ calls'[i].pc = "returned"
                  /\ calls'[i].result = "value"
                  /\ calls'[i].error = NoError]_vars
    /\ [](\A p \in probes :
            /\ ENABLED (ProbeResolve(p) /\ UNCHANGED audit)
            /\ ENABLED (ProbeReject(p) /\ UNCHANGED audit))

\* the flag went false while the first invocation was in flight, and the
\* probe that did it has gone
C23_Witness ==
    \E i \in DOMAIN calls :
        /\ calls[i].pc = "invoking"
        /\ calls[i].attempt = 1
        /\ calls[i].errors = <<>>
        /\ ~isHealthy
        /\ probes = {}

(***************************************************************************)
(* Termination.  One call (of a caller-supplied operation or of            *)
(* executeTransaction) with probes and network switches around it.  What   *)
(* the event loop and the RPC client guarantee: an awaited RPC call        *)
(* settles, a setTimeout fires, and confirmTransaction rejects by itself   *)
(* when the blockhash expires (or after the connection's                   *)
(* confirmTransactionInitialTimeout) if no confirmation arrives.           *)
(***************************************************************************)
\* the maxRetries arguments of the call: omitted, or 1 (no retry)
LiveArgs == {<<>>, <<1>>}

\* one probe in flight at a time; a switch to the other cluster or to a
\* string that is no URL, commitment omitted
NextLive ==
    \/ \E t \in timers : probes = {} /\ TimerTick(t) /\ UNCHANGED audit
    \/ \E p \in probes : ProbeResolve(p) /\ UNCHANGED audit
    \/ \E p \in probes : ProbeReject(p) /\ UNCHANGED audit
    \/ \E ep \in Endpoints \ {endpoint} : SwitchNetwork(ep, <<>>)
    \/ \E i \in DOMAIN calls, arg \in LiveArgs : Call(i, arg)
    \/ \E i \in DOMAIN calls : OperationResolve(i)
    \/ \E i \in DOMAIN calls, e \in OperationErrors : OperationReject(i, e)
    \/ \E i \in DOMAIN calls, sg \in SignerLists :
            CallExecuteTransaction(i, <<CallerInstruction(1)>>, sg,
                                   DefaultComputeUnits, 0)
    \/ \E i \in DOMAIN calls : BlockhashResolve(i)
    \/ \E i \in DOMAIN calls : BlockhashReject(i)
    \/ \E i \in DOMAIN calls : SendResolve(i)
    \/ \E i \in DOMAIN calls : SendReject(i)
    \/ \E i \in DOMAIN calls : ConfirmOk(i)
    \/ \E i \in DOMAIN calls, err \in OnChainErrors : ConfirmErr(i, err)
    \/ \E i \in DOMAIN calls : ConfirmTimeout(i)
    \/ \E i \in DOMAIN calls : SleepDone(i)

Settles ==
    \A i \in CallIds :
        /\ WF_vars(OperationResolve(i)
                   \/ \E e \in OperationErrors : OperationReject(i, e))
        /\ WF_vars(BlockhashResolve(i) \/ BlockhashReject(i))
        /\ WF_vars(SendResolve(i) \/ SendReject(i))
        /\ WF_vars(ConfirmTimeout(i))
        /\ WF_vars(SleepDone(i))

SpecLive == Init /\ [][NextLive]_vars /\ Settles

Finished(i) == calls[i].pc \in {"returned", "raised"}

CommitmentOptions == {<<>>, <<"finalized">>, <<"max">>, <<"">>}
MaxRetriesOptions == {<<>>, <<0>>, <<5>>}
RetryDelayOptions == {<<>>, <<500>>}
TimeoutOptions == {<<>>, <<30000>>}
LoggingOptions == {<<>>, <<TRUE>>}
NetworkNames == {"devnet", "mainnet", "staging", "constructor"}

\* toolkit.setConfig(options)
SetConfig(options) ==
    /\ toolkit' = setConfig(toolkit, options)
    /\ UNCHANGED <<audit, mgrVars, calls, txn, ledger>>

\* toolkit.config.setCommitment(cm)
ConfigSetCommitment(cm) ==
    /\ LET r == setCommitment(toolkit.config, cm)
       IN  toolkit' = [toolkit EXCEPT
                !.config = r.config,
                !.last = [NoApiCall EXCEPT !.op = "setCommitment",
                            !.commitment = <<cm>>, !.thrown = r.thrown]]
    /\ UNCHANGED <<audit, mgrVars, calls, txn, ledger>>

\* toolkit.config.setNetwork(name)
ConfigSetNetwork(name) ==
    /\ LET r == setNetwork(name)
       IN  toolkit' = [toolkit EXCEPT
                !.last = [NoApiCall EXCEPT !.op = "setNetwork",
                            !.network = name, !.thrown = r.thrown,
                            !.returned = r.returned]]
    /\ UNCHANGED <<audit, mgrVars, calls, txn, ledger>>

NextConfig ==
    \/ \E cm \in CommitmentOptions, mr \in MaxRetriesOptions,
          rd \in RetryDelayOptions, tm \in TimeoutOptions,
          lg \in LoggingOptions :
            SetConfig([commitment |-> cm, maxRetries |-> mr, retryDelay |-> rd,
                       timeout |-> tm, enableLogging |-> lg])
    \/ \E cm \in CommitmentOptions \ {<<>>} : ConfigSetCommitment(cm[1])
    \/ \E name \in NetworkNames : ConfigSetNetwork(name)
    \/ \E i \in DOMAIN calls : CallQuery(i, "getAccountInfo", "key1")
    \/ \E i \in DOMAIN calls : QueryFound(i)
    \/ \E i \in DOMAIN calls : QueryNull(i)
    \/ \E i \in DOMAIN calls : QueryReject(i)
    \/ \E i \in DOMAIN calls : SleepDone(i)

SpecConfig == Init /\ [][NextConfig]_vars

\* C25: an operation issued through the toolkit runs with the retry policy
\* stored by the last setConfig: its maxRetries is config.maxRetries and its
\* k-th backoff sleep lasts config.retryDelay * 2^(k-1).
C25_ConfiguredPolicyIsApplied ==
    [][\A i \in DOMAIN calls :
          /\ (calls[i].pc = "idle" /\ calls'[i].pc # "idle") =>
                calls'[i].maxRetries = toolkit.config.maxRetries
          /\ Len(calls'[i].sleeps) > Len(calls[i].sleeps) =>
                Last(calls'[i].sleeps) =
                    toolkit.config.retryDelay * 2^Len(calls[i].sleeps)]_vars

\* C26: the stored defaultCommitment is always processed, confirmed or
\* finalized; a setCommitment or setConfig given any other commitment throws
\* INVALID_COMMITMENT and leaves configuration and logger as they were; a
\* setNetwork given a name that is no network throws INVALID_NETWORK and
\* changes nothing.
C26_InvalidValuesAreRejected ==
    /\ [](toolkit.config.defaultCommitment
            \in {"processed", "confirmed", "finalized"})
    /\ [][toolkit' # toolkit =>
            LET l == toolkit'.last IN
            /\ (l.op \in {"setCommitment", "setConfig"} /\ l.commitment # <<>>
                  /\ l.commitment[1]
                        \notin {"processed", "confirmed", "finalized"}) =>
                    /\ l.thrown = "INVALID_COMMITMENT"
                    /\ toolkit'.config = toolkit.config
                    /\ toolkit'.logger = toolkit.logger
            /\ (l.op = "setNetwork"
                  /\ l.network
                        \notin {"mainnet", "testnet", "devnet", "localnet"}) =>
                    /\ l.thrown = "INVALID_NETWORK"
                    /\ toolkit'.config = toolkit.config]_vars

\* C27: the stored retry defaults and the maxRetries of every call under way
\* are at least 1.
C27_MaxAttemptsAtLeastOne ==
    /\ toolkit.config.maxRetries >= 1
    /\ \A i \in DOMAIN calls :
          calls[i].pc # "idle" => calls[i].maxRetries >= 1

(***************************************************************************)
(* Logger, and AccountManager.requestAirdrop, the operation that logs from *)
(* inside the body handed to executeWithRetry.  Every step is taken twice: *)
(* by the toolkit with its Logger as configured, and by the replay with a  *)
(* Logger that does nothing (toolkit.quiet), against the same answers of   *)
(* the remote and the same health flag.                                    *)
(***************************************************************************)
LAMPORTS_PER_SOL == 1000000000

\* the console method the switch of Logger.log picks
ConsoleMethod(level) ==
    IF level \in {"error", "warn", "info", "debug"} THEN level ELSE "log"

\* mutant of Log: an enabled logger serialises the data, which throws on a
\* value JSON cannot hold
Log_EnabledSerialisesData(enabled, console, level, message) ==
    IF ~enabled THEN [console |-> console, thrown |-> FALSE]
    ELSE [console |-> console, thrown |-> TRUE]

\* Logger.log(level, message, data): the console after the call, and whether
\* the call threw
Log(enabled, console, level, message) ==
    IF ~enabled THEN [console |-> console, thrown |-> FALSE]
    ELSE [console |-> Append(console, <<ConsoleMethod(level), message>>),
          thrown |-> FALSE]

\* the toolkit's own run as a world
World(i) == [call |-> calls[i], pc |-> txn.pc, remote |-> toolkit.remote]

\* an attempt began (c is the call after Enter or AfterSleep): when it got
\* through the health gate the body calls connection.requestAirdrop
AirdropAttempt(w, c) ==
    [call |-> c,
     pc |-> OperationEntered(c, [IdleTxn EXCEPT !.pc = w.pc]).pc,
     remote |-> IF c.pc = "invoking" THEN Append(w.remote, "requestAirdrop")
                ELSE w.remote]

\* requestAirdrop resolved: confirmTransaction(signature) is called
AirdropSent(w) ==
    [w EXCEPT !.pc = "confirmTransaction",
              !.remote = Append(@, "confirmTransaction")]

\* an awaited RPC call of the body rejected, or a statement of it threw
AirdropFailed(w, e, outcome) ==
    [w EXCEPT !.call = Recorded(Catch(w.call, e), outcome), !.pc = "idle"]

\* confirmTransaction resolved: logger.info(...) and the return
AirdropCompleted(w, logged) ==
    IF logged.thrown
    THEN AirdropFailed(w, TypeError, "log")
    ELSE [w EXCEPT !.call = Recorded(Return(w.call, "signature"), "ok"),
                   !.pc = "idle"]

\* the step of the toolkit (w, with console c) and of the replay (q), with
\* a note of the API call that made it
Noted(i, w, c, q, call) ==
    /\ calls' = [calls EXCEPT ![i] = w.call]
    /\ txn' = [txn EXCEPT !.pc = w.pc]
    /\ toolkit' = [toolkit EXCEPT !.console = c, !.remote = w.remote,
                                  !.quiet = q, !.last = call]
    /\ UNCHANGED <<audit, mgrVars, ledger>>

\* the step of the toolkit (w, with console c) and of the replay (q)
Both(i, w, c, q) == Noted(i, w, c, q, toolkit.last)

AirdropAmounts == {LAMPORTS_PER_SOL, 2 * LAMPORTS_PER_SOL + 1}

AirdropLimitError ==
    SolanaToolkitError(<<"Airdrop amount exceeds maximum allowed">>,
                       "AIRDROP_LIMIT_EXCEEDED", NoContext)

\* the call after requestAirdrop(publicKey, amount) ran to its first await,
\* or to its throw
AirdropEnter(publicKey, amount) ==
    IF amount > 2 * LAMPORTS_PER_SOL
    THEN [IdleCall EXCEPT !.kind = "requestAirdrop", !.subject = publicKey,
                          !.pc = "raised",
                          !.error = ManagerCatch("requestAirdrop", publicKey,
                                                 AirdropLimitError)]
    ELSE Enter("requestAirdrop", publicKey, <<>>)

\* toolkit.account.requestAirdrop(publicKey, amount)
CallRequestAirdrop(i, publicKey, amount) ==
    /\ calls[i].pc = "idle"
    /\ Both(i, AirdropAttempt(World(i), AirdropEnter(publicKey, amount)),
            toolkit.console,
            AirdropAttempt(toolkit.quiet, AirdropEnter(publicKey, amount)))

InAirdrop(i, pc) ==
    /\ calls[i].pc = "invoking"
    /\ calls[i].kind = "requestAirdrop"
    /\ txn.pc = pc

AirdropResolve(i) ==
    /\ InAirdrop(i, "requestAirdrop")
    /\ Both(i, AirdropSent(World(i)), toolkit.console,
            AirdropSent(toolkit.quiet))

AirdropReject(i) ==
    /\ InAirdrop(i, "requestAirdrop")
    /\ LET e == PlainError(<<"airdrop request failed">>)
       IN  Both(i, AirdropFailed(World(i), e, "airdrop"), toolkit.console,
                AirdropFailed(toolkit.quiet, e, "airdrop"))

AirdropConfirmResolve(i) ==
    /\ InAirdrop(i, "confirmTransaction")
    /\ LET logged == Log(toolkit.logger.enabled, toolkit.console, "info",
                         "Airdrop completed")
           silent == Log(FALSE, <<>>, "info", "Airdrop completed")
       IN  Both(i, AirdropCompleted(World(i), logged), logged.console,
                AirdropCompleted(toolkit.quiet, silent))

AirdropConfirmReject(i) ==
    /\ InAirdrop(i, "confirmTransaction")
    /\ LET e == PlainError(<<"Transaction was not confirmed">>)
       IN  Both(i, AirdropFailed(World(i), e, "confirm"), toolkit.console,
                AirdropFailed(toolkit.quiet, e, "confirm"))

\* the backoff timer of a requestAirdrop fired
AirdropSleepDone(i) ==
    /\ calls[i].pc = "sleeping"
    /\ calls[i].kind = "requestAirdrop"
    /\ Both(i, AirdropAttempt(World(i), AfterSleep(calls[i])),
            toolkit.console,
            AirdropAttempt(toolkit.quiet, AfterSleep(toolkit.quiet.call)))

\* toolkit.setConfig({enableLogging: enabled})
SetLogging(enabled) ==
    SetConfig([commitment |-> <<>>, maxRetries |-> <<>>, retryDelay |-> <<>>,
               timeout |-> <<>>, enableLogging |-> <<enabled>>])

NextLog ==
    \/ \E t \in timers : TimerTick(t) /\ UNCHANGED audit
    \/ \E p \in probes : ProbeResolve(p) /\ UNCHANGED audit
    \/ \E p \in probes : ProbeReject(p) /\ UNCHANGED audit
    \/ \E enabled \in BOOLEAN : SetLogging(enabled)
    \/ \E i \in DOMAIN calls, pk \in Subjects, amount \in AirdropAmounts :
            CallRequestAirdrop(i, pk, amount)
    \/ \E i \in DOMAIN calls : AirdropResolve(i)
    \/ \E i \in DOMAIN calls : AirdropReject(i)
    \/ \E i \in DOMAIN calls : AirdropConfirmResolve(i)
    \/ \E i \in DOMAIN calls : AirdropConfirmReject(i)
    \/ \E i \in DOMAIN calls : AirdropSleepDone(i)

SpecLog == Init /\ [][NextLog]_vars

\* C28: at every moment the toolkit's requestAirdrop and its replay with a
\* Logger that does nothing have issued the same RPC calls in the same order,
\* made the same attempts and sleeps, and returned the same result or raised
\* the same error, whether or when logging was switched on; a disabled Logger
\* writes nothing.
C28_LoggingIsObservational ==
    /\ [](\A i \in DOMAIN calls :
            /\ toolkit.quiet.call = calls[i]
            /\ toolkit.quiet.pc = txn.pc
            /\ toolkit.quiet.remote = toolkit.remote)
    /\ [][~toolkit.logger.enabled => toolkit'.console = toolkit.console]_vars

C28_Witness ==
    \E i \in DOMAIN calls :
        /\ calls[i].pc = "returned"
        /\ calls[i].outcomes = <<"confirm", "ok">>
        /\ toolkit.console = <<<<"info", "Airdrop completed">>>>
        /\ toolkit.remote = <<"requestAirdrop", "confirmTransaction",
                              "requestAirdrop", "confirmTransaction">>
        /\ toolkit.quiet.call.result = "signature"

(***************************************************************************)
(* executeTransaction against a cluster that processes what it was sent    *)
(***************************************************************************)
\* the cluster accepts an envelope whose signatures cover the message as
\* submitted and whose blockhash has not expired
Landable(e) ==
    /\ e.signedBlockhash = e.recentBlockhash
    /\ e.signedInstructions = e.instructions
    /\ ledger.height <= e.lastValidBlockHeight

\* the cluster processes submission k into a block
Land(k) ==
    /\ k \in 1..Len(ledger.submitted)
    /\ k \notin ledger.landed
    /\ Landable(ledger.submitted[k])
    /\ ledger' = [ledger EXCEPT !.landed = @ \cup {k}]
    /\ UNCHANGED <<audit, toolkit, mgrVars, calls, txn>>

\* one executeTransaction; a confirmation is reported (ok or with an
\* on-chain error) for a submission that has landed, and the wait for it
\* can fail at any time
NextLand ==
    \/ \E i \in DOMAIN calls, sg \in SignerLists, pf \in PriorityFeeArgs :
            CallExecuteTransaction(i, <<CallerInstruction(1)>>, sg,
                                   DefaultComputeUnits, pf)
    \/ \E i \in DOMAIN calls : BlockhashResolve(i)
    \/ \E i \in DOMAIN calls : BlockhashReject(i)
    \/ \E i \in DOMAIN calls : SendResolve(i)
    \/ \E i \in DOMAIN calls : SendReject(i)
    \/ \E k \in 1..Len(ledger.submitted) : Land(k)
    \/ \E i \in DOMAIN calls : txn.signature \in ledger.landed /\ ConfirmOk(i)
    \/ \E i \in DOMAIN calls, err \in OnChainErrors :
            txn.signature \in ledger.landed /\ ConfirmErr(i, err)
    \/ \E i \in DOMAIN calls : ConfirmTimeout(i)
    \/ \E i \in DOMAIN calls : SleepDone(i)

SpecLand == Init /\ [][NextLand]_vars

\* the landed submissions for which sendTransaction resolved with a signature
Acknowledged ==
    {k \in ledger.landed :
        \E c \in 1..Len(ledger.confirms) : ledger.confirms[c].signature = k}

\* C30: of the envelopes one executeTransaction has submitted at most one has
\* landed; in particular, of those whose submission went through (and whose
\* confirmation may then have failed or run out) at most one has landed.
C30_AtMostOneEnvelopeLands == Cardinality(Acknowledged) <= 1

(***************************************************************************)
(* Properties of the health gate across the attempts of one call           *)
(***************************************************************************)
\* C31: every attempt, the first and each one after a backoff sleep, is
\* decided by the flag as it is when the attempt starts: with the flag true
\* the operation is invoked, also when the attempt before was
\* short-circuited, and its success is then returned; with the flag false
\* the attempt is short-circuited, also when the attempt before invoked the
\* operation.
C31_FlagIsReadAtEveryAttempt ==
    /\ [][\A i \in DOMAIN calls :
            AttemptStarts(i) =>
                IF isHealthy
                THEN /\ calls'[i].pc = "invoking"
                     /\ calls'[i].invoked = calls[i].invoked + 1
                     /\ calls'[i].errors = calls[i].errors
                ELSE /\ calls'[i].pc # "invoking"
                     /\ calls'[i].invoked = calls[i].invoked
                     /\ Last(calls'[i].errors).code = "UNHEALTHY_CONNECTION"]_vars
    /\ [](\A i \in DOMAIN calls :
            LET c == calls[i] IN
            (c.outcomes # <<>> /\ Last(c.outcomes) = "ok") =>
                /\ c.pc = "returned"
                /\ c.result = "value"
                /\ c.attempt = Len(c.errors) + 1
                /\ c.attempt \notin ShortCircuits(c))

\* attempt 1 invoked the operation, attempt 2 was short-circuited, a probe
\* restored the flag during the sleep and attempt 3 succeeded
C31_Witness ==
    \E i \in DOMAIN calls :
        /\ calls[i].pc = "returned"
        /\ calls[i].outcomes = <<"E1", "ok">>
        /\ ShortCircuits(calls[i]) = {2}
        /\ calls[i].attempt = 3
        /\ isHealthy

(***************************************************************************)
(* Properties of calls under way while the network is switched             *)
(***************************************************************************)
\* C32: the connection handed to the operation at an attempt is the one
\* active when that attempt starts, for the first attempt and for a retry of
\* a call that began before a switch alike; no attempt is handed a
\* connection older than one handed to an earlier attempt of the call.
C32_AttemptUsesActiveConnection ==
    /\ [][\A i \in DOMAIN calls :
            calls'[i].invoked # calls[i].invoked =>
                /\ calls'[i].conns = Append(calls[i].conns, connection.id)
                /\ connection' = connection]_vars
    /\ [](\A i \in DOMAIN calls :
            LET c == calls[i] IN
            /\ Len(c.conns) = c.invoked
            /\ \A j, k \in 1..Len(c.conns) : j < k => c.conns[j] <= c.conns[k]
            /\ \A k \in 1..Len(c.conns) : c.conns[k] <= connection.id)

\* a call of three attempts, the network switched during its first sleep
C32_Witness ==
    \E i \in DOMAIN calls :
        /\ calls[i].kind = "operation"
        /\ calls[i].pc = "raised"
        /\ calls[i].conns = <<1, 2, 2>>
        /\ endpoint = "mainnet"
        /\ switchError = ""

(***************************************************************************)
(* SolanaToolkit.switchNetwork, and ConnectionManager.switchNetwork with   *)
(* a note taken of how it was called                                       *)
(***************************************************************************)
SwitchCall(op, ep, cmArg, thrown) ==
    [NoApiCall EXCEPT !.op = op, !.network = ep, !.commitment = cmArg,
                      !.thrown = thrown]

\* toolkit.connectionManager.switchNetwork(ep [, commitment])
ManagerSwitchNetwork(ep, cmArg) ==
    /\ SwitchNetworkBody(ep, cmArg)
    /\ toolkit' = [toolkit EXCEPT
            !.last = SwitchCall("connectionManager.switchNetwork", ep, cmArg,
                                switchError')]

\* toolkit.switchNetwork(endpoint, commitment = 'confirmed'): the manager's
\* switchNetwork with both arguments, then logger.info when it returned
ToolkitSwitchNetwork(ep, cmArg) ==
    /\ SwitchNetworkBody(ep, IF cmArg = <<>> THEN <<"confirmed">> ELSE cmArg)
    /\ toolkit' = [toolkit EXCEPT
            !.last = SwitchCall("switchNetwork", ep, cmArg, switchError'),
            !.console = IF switchError' # "" THEN @
                        ELSE Log(toolkit.logger.enabled, @, "info",
                                 "Network switched").console]

NextToolkitSwitch ==
    \/ Monitor
    \/ \E ep \in Endpoints, cm \in {<<>>} \cup {<<c>> : c \in Commitments} :
            ManagerSwitchNetwork(ep, cm)
    \/ \E ep \in Endpoints, cm \in {<<>>} \cup {<<c>> : c \in Commitments} :
            ToolkitSwitchNetwork(ep, cm)

SpecToolkitSwitch == Init /\ [][NextToolkitSwitch]_vars

\* a switchNetwork called without a commitment takes effect in this step
SwitchesWithoutCommitment ==
    /\ toolkit'.last.op \in {"switchNetwork", "connectionManager.switchNetwork"}
    /\ toolkit'.last.commitment = <<>>
    /\ <<endpoint, commitment, connection, toolkit.last>>'
          # <<endpoint, commitment, connection, toolkit.last>>

\* C33: a switchNetwork without a commitment, of the toolkit or of the
\* connection manager, leaves the commitment as it was and creates the new
\* connection with it; the endpoint is the one given.
C33_SwitchKeepsCommitment ==
    [][SwitchesWithoutCommitment =>
          /\ commitment' = commitment
          /\ endpoint' = toolkit'.last.network
          /\ switchError' = "" => connection'.commitment = commitment]_vars


(***************************************************************************)
(* TransactionManager.batchTransactions                                    *)
(***************************************************************************)
MaxBatch == 2

\* transactions[k] of the batch, k counted from 0 as in the code
BatchTransaction(k) == <<CallerInstruction(k + 1)>>

\* the options of batchTransactions: maxRetries left out, or given
BatchMaxRetriesOptions == {<<>>, <<1>>, <<5>>}

\* results.push({index: i, success: true, result}) after the await, or
\* results.push({index: i, success: false, error: error.message}) in the
\* catch of the loop body
BatchPush(b, c) ==
    [b EXCEPT !.results = Append(@,
        [index |-> b.i,
         success |-> c.pc = "returned",
         error |-> IF c.pc = "returned" THEN <<>> ELSE c.error.message])]

\* the object batchTransactions returns
BatchReport(results, size) ==
    [total |-> size,
     successful |-> Cardinality({k \in 1..Len(results) : results[k].success}),
     failed |-> Cardinality({k \in 1..Len(results) : ~results[k].success})]

\* mutant of BatchLoop: the first failure ends the loop
BatchLoop_StopsAtFailure(b) ==
    IF b.i + 1 < b.size /\ b.results[Len(b.results)].success
    THEN [b EXCEPT !.i = @ + 1, !.started = Append(@, b.i + 1)]
    ELSE [b EXCEPT !.pc = "done", !.report = BatchReport(b.results, b.size)]

\* i++ and the loop test i < transactions.length: the next transaction is
\* started, or the report is returned
BatchLoop(b) ==
    IF b.i + 1 < b.size
    THEN [b EXCEPT !.i = @ + 1, !.started = Append(@, b.i + 1)]
    ELSE [b EXCEPT !.pc = "done", !.report = BatchReport(b.results, b.size)]

\* batchTransactions(transactions, signers, options) up to its first await:
\* executeTransaction(transactions[0], signers, {maxRetries}), or the report
\* at once for an empty list
CallBatchTransactions(i, size, signers, mrOpt) ==
    /\ toolkit.batch.pc = "idle"
    /\ calls[i].pc = "idle"
    /\ LET mr == IF mrOpt = <<>> THEN 3 ELSE mrOpt[1]
           b == [IdleBatch EXCEPT !.size = size, !.maxRetries = mr]
       IN  IF size = 0
           THEN /\ toolkit' = [toolkit EXCEPT !.batch =
                        [b EXCEPT !.pc = "done",
                                  !.report = BatchReport(<<>>, 0)]]
                /\ UNCHANGED <<calls, txn>>
           ELSE /\ toolkit' = [toolkit EXCEPT !.batch =
                        [b EXCEPT !.pc = "running", !.started = <<0>>]]
                /\ StartExecuteTransaction(i,
                        TransactionOf(BatchTransaction(0), signers,
                                      DefaultComputeUnits, 0, <<mr>>))
    /\ UNCHANGED <<audit, mgrVars, ledger>>

\* the await of executeTransaction(transactions[i], ...) resumes with its
\* result or its error: the entry is pushed and the loop goes on
BatchResume(i) ==
    /\ toolkit.batch.pc = "running"
    /\ calls[i].pc \in {"returned", "raised"}
    /\ LET b == BatchLoop(BatchPush(toolkit.batch, calls[i]))
       IN  /\ toolkit' = [toolkit EXCEPT !.batch = b]
           /\ IF b.pc = "running"
              THEN StartExecuteTransaction(i,
                        TransactionOf(BatchTransaction(b.i), txn.signers,
                                      DefaultComputeUnits, 0,
                                      <<b.maxRetries>>))
              ELSE UNCHANGED <<calls, txn>>
    /\ UNCHANGED <<audit, mgrVars, ledger>>

\* executeTransaction(transaction, signers, {maxRetries}) called by itself
CallExecuteTransactionWithMaxRetries(i, mrOpt) ==
    /\ toolkit.batch.pc = "idle"
    /\ calls[i].pc = "idle"
    /\ StartExecuteTransaction(i,
            TransactionOf(BatchTransaction(0), <<"payer">>,
                          DefaultComputeUnits, 0, mrOpt))
    /\ UNCHANGED <<audit, toolkit, mgrVars, ledger>>

NextBatch ==
    \/ \E i \in DOMAIN calls, size \in 0..MaxBatch,
          mr \in BatchMaxRetriesOptions :
            CallBatchTransactions(i, size, <<"payer">>, mr)
    \/ \E i \in DOMAIN calls, mr \in BatchMaxRetriesOptions :
            CallExecuteTransactionWithMaxRetries(i, mr)
    \/ \E i \in DOMAIN calls : BatchResume(i)
    \/ \E i \in DOMAIN calls : BlockhashResolve(i)
    \/ \E i \in DOMAIN calls : BlockhashReject(i)
    \/ \E i \in DOMAIN calls : SendResolve(i)
    \/ \E i \in DOMAIN calls : ConfirmOk(i)
    \/ \E i \in DOMAIN calls, err \in OnChainErrors : ConfirmErr(i, err)
    \/ \E i \in DOMAIN calls : SleepDone(i)

SpecBatch == Init /\ [][NextBatch]_vars

\* the results pushed so far, one per transaction started and ended, at the
\* positions of their indices; the report counts them
BatchShape(b) ==
    /\ \A k \in 1..Len(b.started) : b.started[k] = k - 1
    /\ \A k \in 1..Len(b.results) : b.results[k].index = k - 1
    /\ b.pc = "running" =>
            /\ Len(b.started) = Len(b.results) + 1
            /\ b.i = Len(b.results)
    /\ b.pc = "done" =>
            /\ Len(b.started) = b.size
            /\ Len(b.results) = b.size
            /\ b.report.total = b.size
            /\ b.report.total = b.report.successful + b.report.failed
            /\ b.report.successful =
                    Cardinality({k \in 1..b.size : b.results[k].success})

\* C34: batchTransactions runs the transactions one at a time in index
\* order: transaction i+1 is started only in the step in which transaction i,
\* returned or raised, got its result entry; a failed transaction is followed
\* by the next one; the report has total = number of transactions =
\* successful + failed and one entry per transaction, at its index.
C34_BatchIsSequentialAndComplete ==
    [][/\ BatchShape(toolkit'.batch)
       /\ \A i \in DOMAIN calls :
            toolkit'.batch.results # toolkit.batch.results =>
                /\ calls[i].pc \in {"returned", "raised"}
                /\ Last(toolkit'.batch.results).success =
                        (calls[i].pc = "returned")
       /\ (toolkit'.batch.started # toolkit.batch.started
           /\ toolkit.batch.pc = "running") =>
                /\ toolkit'.batch.results # toolkit.batch.results
                /\ txn'.callerInstructions =
                        BatchTransaction(Len(toolkit.batch.results) + 1)
       /\ ~(toolkit.batch.pc = "running" /\ toolkit'.batch.pc = "done"
            /\ toolkit.batch.i + 1 < toolkit.batch.size)]_vars

\* a batch of two has ended: the first transaction failed, the second was
\* executed and succeeded
C34_Witness ==
    /\ toolkit.batch.pc = "done"
    /\ toolkit.batch.size = 2
    /\ ~toolkit.batch.results[1].success
    /\ toolkit.batch.results[2].success
    /\ toolkit.batch.report = [total |-> 2, successful |-> 1, failed |-> 1]


\* C38: the maxRetries option of executeTransaction and batchTransactions
\* reaches only the options of connection.sendTransaction; executeWithRetry
\* runs with the manager's retryAttempts (3) whatever the option is, so a
\* transaction that keeps failing is raised after three attempts.
C38_OptionDoesNotSetAttempts ==
    /\ \A k \in 1..Len(ledger.submitted) :
            ledger.submitted[k].maxRetries = txn.maxRetries
    /\ \A i \in DOMAIN calls :
            calls[i].kind = "executeTransaction" =>
                /\ calls[i].maxRetries = retryAttempts
                /\ calls[i].invoked <= retryAttempts
                /\ calls[i].pc = "raised" => calls[i].invoked = retryAttempts

\* with maxRetries: 1 three envelopes were submitted, each with maxRetries 1
\* in its send options, before the call was raised
C38_Witness ==
    \E i \in DOMAIN calls :
        /\ calls[i].kind = "executeTransaction"
        /\ calls[i].pc = "raised"
        /\ txn.maxRetries = 1
        /\ calls[i].invoked = 3
        /\ Len(ledger.submitted) = 3
        /\ \A k \in 1..3 : ledger.submitted[k].maxRetries = 1


(***************************************************************************)
(* TokenManager.getOrCreateAssociatedTokenAccount                          *)
(***************************************************************************)
\* getOrCreateAssociatedTokenAccount(payer, owner, mint) up to its await of
\* executeWithRetry(connection => connection.getAccountInfo(address))
CallGetOrCreateAssociatedTokenAccount(i) ==
    /\ toolkit.token.pc = "idle"
    /\ calls[i].pc = "idle"
    /\ calls' = [calls EXCEPT ![i] =
            Enter("getOrCreateAssociatedTokenAccount", "ata", <<>>)]
    /\ toolkit' = [toolkit EXCEPT !.token.pc = "getAccountInfo"]
    /\ UNCHANGED <<audit, mgrVars, txn, ledger>>

InAccountQuery(i) ==
    /\ calls[i].pc = "invoking"
    /\ calls[i].kind = "getOrCreateAssociatedTokenAccount"

\* connection.getAccountInfo resolved with the account
AccountInfoFound(i) ==
    /\ InAccountQuery(i)
    /\ calls' = [calls EXCEPT ![i] = Recorded(Return(calls[i], "info"), "ok")]
    /\ toolkit' = [toolkit EXCEPT !.token.answers = Append(@, "account")]
    /\ UNCHANGED <<audit, mgrVars, txn, ledger>>

\* connection.getAccountInfo resolved with null, which the operation returns
AccountInfoNull(i) ==
    /\ InAccountQuery(i)
    /\ calls' = [calls EXCEPT ![i] = Recorded(Return(calls[i], "null"), "null")]
    /\ toolkit' = [toolkit EXCEPT !.token.answers = Append(@, "null")]
    /\ UNCHANGED <<audit, mgrVars, txn, ledger>>

\* connection.getAccountInfo rejected
AccountInfoReject(i) ==
    /\ InAccountQuery(i)
    /\ calls' = [calls EXCEPT ![i] =
            Recorded(Catch(calls[i], PlainError(<<"fetch failed">>)), "fetch")]
    /\ toolkit' = [toolkit EXCEPT !.token.answers = Append(@, "fetch")]
    /\ UNCHANGED <<audit, mgrVars, txn, ledger>>

\* mutant of AccountQueried: a query that failed counts as an absent account
AccountQueried_FailureIsAbsent(t, c) ==
    IF c.pc = "returned" /\ c.result # "null"
    THEN [t EXCEPT !.pc = "returned", !.exists = <<TRUE>>]
    ELSE [t EXCEPT !.pc = "createAssociatedTokenAccount", !.created = @ + 1]

\* the await of executeWithRetry resumes: the outer catch for an error,
\* `if (accountInfo) return {..., exists: true}` for an account, and the call
\* of createAssociatedTokenAccount for null
AccountQueried(t, c) ==
    IF c.pc = "raised"
    THEN [t EXCEPT !.pc = "raised", !.error = c.error]
    ELSE IF c.result # "null"
    THEN [t EXCEPT !.pc = "returned", !.exists = <<TRUE>>]
    ELSE [t EXCEPT !.pc = "createAssociatedTokenAccount", !.created = @ + 1]

\* createAssociatedTokenAccount builds the transaction with the one creation
\* instruction and calls executeTransaction(transaction, [payer], {...})
AccountQueryResume(i) ==
    /\ toolkit.token.pc = "getAccountInfo"
    /\ calls[i].pc \in {"returned", "raised"}
    /\ LET t == AccountQueried(toolkit.token, calls[i])
       IN  /\ toolkit' = [toolkit EXCEPT !.token = t]
           /\ IF t.pc = "createAssociatedTokenAccount"
              THEN StartExecuteTransaction(i,
                        TransactionOf(<<CallerInstruction(1)>>, <<"payer">>,
                                      DefaultComputeUnits, 0, <<>>))
              ELSE UNCHANGED <<calls, txn>>
    /\ UNCHANGED <<audit, mgrVars, ledger>>

\* the await of executeTransaction in createAssociatedTokenAccount resumes:
\* {...result, exists: false}, or the error in the wrappers of both catches
AccountCreated(t, c, signature) ==
    IF c.pc = "returned"
    THEN [t EXCEPT !.pc = "returned", !.exists = <<FALSE>>,
                   !.signature = signature]
    ELSE [t EXCEPT !.pc = "raised",
                   !.error = ManagerCatch("getOrCreateAssociatedTokenAccount",
                                c.subject,
                                ManagerCatch("createAssociatedTokenAccount",
                                             c.subject, c.error))]

AccountCreateResume(i) ==
    /\ toolkit.token.pc = "createAssociatedTokenAccount"
    /\ calls[i].pc \in {"returned", "raised"}
    /\ toolkit' = [toolkit EXCEPT !.token =
            AccountCreated(toolkit.token, calls[i], txn.signature)]
    /\ UNCHANGED <<audit, mgrVars, calls, txn, ledger>>

NextToken ==
    \/ \E t \in timers : probes = {} /\ TimerTick(t) /\ UNCHANGED audit
    \/ \E p \in probes : ProbeResolve(p) /\ UNCHANGED audit
    \/ \E p \in probes : ProbeReject(p) /\ UNCHANGED audit
    \/ \E i \in DOMAIN calls : CallGetOrCreateAssociatedTokenAccount(i)
    \/ \E i \in DOMAIN calls : AccountInfoFound(i)
    \/ \E i \in DOMAIN calls : AccountInfoNull(i)
    \/ \E i \in DOMAIN calls : AccountInfoReject(i)
    \/ \E i \in DOMAIN calls : AccountQueryResume(i)
    \/ \E i \in DOMAIN calls : AccountCreateResume(i)
    \/ \E i \in DOMAIN calls : BlockhashResolve(i)
    \/ \E i \in DOMAIN calls : BlockhashReject(i)
    \/ \E i \in DOMAIN calls : SendResolve(i)
    \/ \E i \in DOMAIN calls : SendReject(i)
    \/ \E i \in DOMAIN calls : ConfirmOk(i)
    \/ \E i \in DOMAIN calls, err \in OnChainErrors : ConfirmErr(i, err)
    \/ \E i \in DOMAIN calls : ConfirmTimeout(i)
    \/ \E i \in DOMAIN calls : SleepDone(i)

SpecToken == Init /\ [][NextToken]_vars

\* the account query has ended and the method has taken its answer
AccountAnswerTaken ==
    toolkit.token.pc \in {"createAssociatedTokenAccount", "returned", "raised"}

\* what the remote said last to getAccountInfo; "none" when it was never asked
LastAccountAnswer ==
    IF toolkit.token.answers = <<>> THEN "none"
    ELSE Last(toolkit.token.answers)

\* C35: getOrCreateAssociatedTokenAccount runs createAssociatedTokenAccount
\* (once) exactly when its query returned null, and nothing is submitted
\* without it; an account found gives exists = true, a creation that
\* succeeded exists = false; a query that failed (rejections to the last
\* attempt, or an unhealthy connection) raises ASSOCIATED_TOKEN_ACCOUNT_ERROR
\* and creates nothing.
C35_CreatesOnlyWhenAbsent ==
    LET t == toolkit.token
    IN  /\ t.created <= 1
        /\ ~AccountAnswerTaken => t.created = 0
        /\ AccountAnswerTaken =>
                (t.created = 1 <=> LastAccountAnswer = "null")
        /\ t.created = 0 =>
                ledger.submitted = <<>> /\ ledger.fetched = <<>>
        /\ t.pc = "returned" =>
                /\ t.exists = <<TRUE>> <=> LastAccountAnswer = "account"
                /\ t.exists = <<FALSE>> <=>
                        /\ t.created = 1
                        /\ t.signature \in 1..Len(ledger.submitted)
        /\ (AccountAnswerTaken /\ LastAccountAnswer \in {"none", "fetch"}) =>
                /\ t.pc = "raised"
                /\ t.error.code = "ASSOCIATED_TOKEN_ACCOUNT_ERROR"
                /\ t.created = 0

\* the query was rejected once and then answered null; the account was
\* created by one transaction and exists = false returned
C35_Witness ==
    /\ toolkit.token.pc = "returned"
    /\ toolkit.token.answers = <<"fetch", "null">>
    /\ toolkit.token.exists = <<FALSE>>
    /\ toolkit.token.created = 1
    /\ Len(ledger.submitted) = 1


(***************************************************************************)
(* Input validation of sendTransaction and requestAirdrop                  *)
(***************************************************************************)
\* requestAirdrop(publicKey, amount), the amount noted
CallRequestAirdropOf(i, publicKey, amount) ==
    /\ calls[i].pc = "idle"
    /\ toolkit.last.op = ""
    /\ Noted(i, AirdropAttempt(World(i), AirdropEnter(publicKey, amount)),
             toolkit.console,
             AirdropAttempt(toolkit.quiet, AirdropEnter(publicKey, amount)),
             [NoApiCall EXCEPT !.op = "requestAirdrop",
                               !.amount = <<amount>>])

SendAmounts == {-1, 0, 1}

InvalidAmountError ==
    SolanaToolkitError(<<"Transaction amount must be greater than 0">>,
                       "INVALID_AMOUNT", NoContext)

\* SystemProgram.transfer({fromPubkey, toPubkey, lamports: amount})
TransferInstruction(amount) ==
    [programId |-> "SystemProgram", data |-> <<2, amount>>]

\* sendTransaction(senderAccount, receiverAccount, amount) without options:
\* the throw for amount <= 0 lands in the catch of the same try block; else
\* executeTransaction(transaction, [senderAccount], {...}) is awaited
CallSendTransaction(i, receiver, amount) ==
    /\ calls[i].pc = "idle"
    /\ toolkit.last.op = ""
    /\ LET call == [NoApiCall EXCEPT !.op = "sendTransaction",
                                     !.network = receiver,
                                     !.amount = <<amount>>]
       IN  IF amount <= 0
           THEN /\ toolkit' = [toolkit EXCEPT !.last =
                        [call EXCEPT !.thrown =
                            ManagerCatch("sendTransaction", receiver,
                                         InvalidAmountError).code]]
                /\ UNCHANGED <<calls, txn>>
           ELSE /\ toolkit' = [toolkit EXCEPT !.last = call]
                /\ StartExecuteTransaction(i,
                        TransactionOf(<<TransferInstruction(amount)>>,
                                      <<"sender">>, DefaultComputeUnits, 0,
                                      <<>>))
    /\ UNCHANGED <<audit, mgrVars, ledger>>

\* `return await this.executeTransaction(...)` resumes: the result, or the
\* error in the wrapper of the catch
SendTransactionResume(i) ==
    /\ toolkit.last.op = "sendTransaction"
    /\ toolkit.last.thrown = "" /\ toolkit.last.returned = <<>>
    /\ calls[i].pc \in {"returned", "raised"}
    /\ toolkit' = [toolkit EXCEPT !.last =
            IF calls[i].pc = "returned"
            THEN [@ EXCEPT !.returned = <<txn.signature>>]
            ELSE [@ EXCEPT !.thrown =
                    ManagerCatch("sendTransaction", toolkit.last.network,
                                 calls[i].error).code]]
    /\ UNCHANGED <<audit, mgrVars, calls, txn, ledger>>

InSend(i) == calls[i].kind = "executeTransaction"

NextValidate ==
    \/ \E i \in DOMAIN calls, pk \in Subjects, amount \in AirdropAmounts :
            CallRequestAirdropOf(i, pk, amount)
    \/ \E i \in DOMAIN calls : AirdropResolve(i)
    \/ \E i \in DOMAIN calls : AirdropReject(i)
    \/ \E i \in DOMAIN calls : AirdropConfirmResolve(i)
    \/ \E i \in DOMAIN calls : AirdropConfirmReject(i)
    \/ \E i \in DOMAIN calls : AirdropSleepDone(i)
    \/ \E i \in DOMAIN calls, pk \in Subjects, amount \in SendAmounts :
            CallSendTransaction(i, pk, amount)
    \/ \E i \in DOMAIN calls : SendTransactionResume(i)
    \/ \E i \in DOMAIN calls : InSend(i) /\ BlockhashResolve(i)
    \/ \E i \in DOMAIN calls : InSend(i) /\ BlockhashReject(i)
    \/ \E i \in DOMAIN calls : InSend(i) /\ SendResolve(i)
    \/ \E i \in DOMAIN calls : InSend(i) /\ SendReject(i)
    \/ \E i \in DOMAIN calls : InSend(i) /\ ConfirmOk(i)
    \/ \E i \in DOMAIN calls, err \in OnChainErrors :
            InSend(i) /\ ConfirmErr(i, err)
    \/ \E i \in DOMAIN calls : InSend(i) /\ ConfirmTimeout(i)
    \/ \E i \in DOMAIN calls : InSend(i) /\ SleepDone(i)

SpecValidate == Init /\ [][NextValidate]_vars

\* C36: sendTransaction with amount <= 0 raises INVALID_AMOUNT and
\* requestAirdrop with an amount above 2 SOL raises AIRDROP_LIMIT_EXCEEDED,
\* both before executeWithRetry is called and before any RPC call is made.
C36_ValidationErrorsKeepTheirCode ==
    \A i \in DOMAIN calls :
        /\ (toolkit.last.op = "sendTransaction"
            /\ toolkit.last.amount[1] <= 0) =>
                /\ toolkit.last.thrown = "INVALID_AMOUNT"
                /\ calls[i] = IdleCall
                /\ ledger = IdleLedger
        /\ (toolkit.last.op = "requestAirdrop"
            /\ toolkit.last.amount[1] > 2 * LAMPORTS_PER_SOL) =>
                /\ calls[i].pc = "raised"
                /\ calls[i].error.code = "AIRDROP_LIMIT_EXCEEDED"
                /\ calls[i].invoked = 0
                /\ toolkit.remote = <<>>


(***************************************************************************)
(* lastHealthCheck under probes, switchNetwork and executeWithRetry        *)
(***************************************************************************)
\* probes observed one at a time, the clock, switchNetwork to another
\* endpoint and one executeWithRetry
NextHealth ==
    \/ \E t \in timers : probes = {} /\ ObservedTick(t)
    \/ \E p \in probes : ObservedResolve(p)
    \/ \E p \in probes : ObservedReject(p)
    \/ ClockAdvance
    \/ \E ep \in Endpoints \ {endpoint} : SwitchNetwork(ep, <<>>)
    \/ \E i \in DOMAIN calls : Call(i, <<>>)
    \/ \E i \in DOMAIN calls : OperationResolve(i)
    \/ \E i \in DOMAIN calls : OperationReject(i, PlainError(<<"E1">>))
    \/ \E i \in DOMAIN calls : SleepDone(i)

SpecHealth == Init /\ [][NextHealth]_vars

\* a probe completes in this step, in the way given
ProbeCompletes(how) ==
    /\ \E p \in probes : probes' = probes \ {p}
    /\ audit'.how = how

\* C37: lastHealthCheck changes only in the step of a probe whose getSlot
\* resolved, which sets it to the time of that step; a probe that throws sets
\* isHealthy to false and leaves it; switchNetwork and every step of
\* executeWithRetry leave it; it never decreases.
C37_OnlyCompletedProbeStampsTime ==
    [][/\ lastHealthCheck' # lastHealthCheck =>
            ProbeCompletes("resolved") /\ lastHealthCheck' = now
       /\ ProbeCompletes("rejected") =>
            ~isHealthy' /\ lastHealthCheck' = lastHealthCheck
       /\ (connection' # connection \/ switchError' # switchError
           \/ endpoint' # endpoint \/ calls' # calls) =>
            lastHealthCheck' = lastHealthCheck
       /\ lastHealthCheck' >= lastHealthCheck]_vars

\* a probe resolved at one clock value, the network was switched, and a later
\* probe has thrown: the time of the first is still there
C37_Witness ==
    /\ audit.how = "rejected"
    /\ ~isHealthy
    /\ lastHealthCheck > 0
    /\ lastHealthCheck < now
    /\ connection.id > 1
    /\ \E i \in DOMAIN calls : calls[i].pc = "raised"

====
